---- MODULE Spec2Model ----
(***************************************************************************)
(* Verification model of the clearcare-compliance validation core:         *)
(* the structure sniffers, the layout classifier, the profile detector and *)
(* the rule evaluator (run_rules).                                         *)
(*                                                                         *)
(* Text is modelled as a sequence of lines, a line by what csv.reader      *)
(* makes of it (its cells, or a rejection), a cell as a sequence of        *)
(* one-character strings so that lower(), strip() and replace() are        *)
(* computed, not assumed.                                                  *)
(***************************************************************************)
EXTENDS Integers, Sequences, FiniteSets, TLC

VARIABLES text, sniffOut, hdrInput, layoutOut, profIn, profOut, runIn, report,
          rerun, runs, uploaded, evidence, pc, csvFile, result

sniffVars == <<text, sniffOut>>
layoutVars == <<hdrInput, layoutOut>>
profileVars == <<profIn, profOut>>
rulesVars == <<runIn, report, rerun>>
serviceVars == <<runs, uploaded, evidence, pc>>
csvVars == <<csvFile, result>>
vars == <<text, sniffOut, hdrInput, layoutOut, profIn, profOut, runIn, report,
          rerun, runs, uploaded, evidence, pc, csvFile, result>>

\* the variables each component leaves alone
notSniffVars == <<csvVars, layoutVars, profileVars, rulesVars, serviceVars>>
notLayoutVars == <<csvVars, sniffVars, profileVars, rulesVars, serviceVars>>
notProfileVars == <<csvVars, sniffVars, layoutVars, rulesVars, serviceVars>>
notRulesVars == <<csvVars, sniffVars, layoutVars, profileVars, serviceVars>>
notServiceVars == <<sniffVars, layoutVars, profileVars, rulesVars, csvVars>>
notCsvVars == <<sniffVars, layoutVars, profileVars, rulesVars, serviceVars>>

(***************************************************************************)
(* Bounds                                                                  *)
(***************************************************************************)
MaxLines == 4
MaxHeaders == 3
MaxProfileHeaders == 2
MaxRows == 2
MaxMappedHeaders == 3

(***************************************************************************)
(* Strings                                                                 *)
(***************************************************************************)
UPPER == <<"A","B","C","D","E","F","G","H","I","J","K","L","M",
           "N","O","P","Q","R","S","T","U","V","W","X","Y","Z">>
LOWER == <<"a","b","c","d","e","f","g","h","i","j","k","l","m",
           "n","o","p","q","r","s","t","u","v","w","x","y","z">>

\* str.lower() on one character
LowerChar(c) ==
    IF \E i \in 1..26 : UPPER[i] = c
    THEN LOWER[CHOOSE i \in 1..26 : UPPER[i] = c]
    ELSE c

\* str.lower()
Lower(s) == [i \in 1..Len(s) |-> LowerChar(s[i])]

IsSpace(c) == c \in {" ", "\t"}

RECURSIVE LStrip(_)
LStrip(s) == IF s # <<>> /\ IsSpace(Head(s)) THEN LStrip(Tail(s)) ELSE s

RECURSIVE RStrip(_)
RStrip(s) ==
    IF s # <<>> /\ IsSpace(s[Len(s)]) THEN RStrip(SubSeq(s, 1, Len(s) - 1)) ELSE s

\* str.strip()
Strip(s) == RStrip(LStrip(s))

\* the Python test "sub in s" on strings
Contains(sub, s) ==
    \E i \in 0..(Len(s) - Len(sub)) : SubSeq(s, i + 1, i + Len(sub)) = sub

Range(f) == {f[i] : i \in DOMAIN f}

Min(a, b) == IF a < b THEN a ELSE b

(***************************************************************************)
(* Vocabularies                                                            *)
(***************************************************************************)
S_mrf_date == <<"m","r","f"," ","d","a","t","e">>
S_cms_template_version ==
    <<"c","m","s"," ","t","e","m","p","l","a","t","e"," ","v","e","r","s","i","o","n">>
S_billing_code == <<"b","i","l","l","i","n","g","_","c","o","d","e">>
S_billing_code_type ==
    <<"b","i","l","l","i","n","g","_","c","o","d","e","_","t","y","p","e">>
S_description == <<"d","e","s","c","r","i","p","t","i","o","n">>
S_standard_charge ==
    <<"s","t","a","n","d","a","r","d","_","c","h","a","r","g","e">>
S_payer == <<"p","a","y","e","r">>

\* preamble.required_labels, lower-cased
wanted == {S_mrf_date, S_cms_template_version}

hospital_indicators ==
    { <<"h","o","s","p","i","t","a","l">>, <<"n","a","m","e">>,
      <<"l","o","c","a","t","i","o","n">>, <<"a","d","d","r","e","s","s">>,
      <<"l","i","c","e","n","s","e">>, <<"u","p","d","a","t","e","d">>,
      <<"v","e","r","s","i","o","n">> }

data_indicators ==
    { S_billing_code, S_description, <<"c","h","a","r","g","e">>,
      <<"p","r","i","c","e">>, S_payer, <<"c","o","d","e","_","t","y","p","e">> }

CMS_KEY_HEADERS ==
    { S_billing_code, S_billing_code_type, S_description, S_standard_charge,
      S_payer, <<"d","e","-","i","d","e","n","t","i","f","i","e","d">> }

(***************************************************************************)
(* Lines                                                                   *)
(***************************************************************************)
Row(cells) == [bad |-> FALSE, cells |-> cells]

\* a line csv.reader rejects (a stray carriage return inside the line, a
\* field over the reader's size limit)
BadLine == [bad |-> TRUE, cells |-> <<>>]

C_MRF_Date == <<"M","R","F"," ","D","a","t","e">>
C_CMS_Template_Version ==
    <<" ","C","M","S"," ","T","e","m","p","l","a","t","e"," ","V","e","r","s","i","o","n"," ">>
C_Hospital_Name == <<"H","o","s","p","i","t","a","l"," ","N","a","m","e">>
C_Updated == <<"U","p","d","a","t","e","d">>
C_Description == <<"D","e","s","c","r","i","p","t","i","o","n">>
C_2_0 == <<"2",".","0">>
C_Acme == <<" ","A","c","m","e">>

RowLabels == Row(<<C_MRF_Date, C_CMS_Template_Version>>)
RowDupLabel == Row(<<C_MRF_Date, S_mrf_date>>)
RowValues == Row(<<C_2_0, C_Acme>>)
RowMeta == Row(<<C_Hospital_Name, C_Updated>>)
RowHeader == Row(<<S_billing_code, C_Description, S_standard_charge>>)
RowEmptyCells == Row(<<<<>>, <<>>>>)
EmptyLine == Row(<<>>)
BlankLine == Row(<< <<" ">> >>)

LineSet == { RowLabels, RowDupLabel, RowValues, RowMeta, RowHeader,
             RowEmptyCells, EmptyLine, BlankLine, BadLine }

Texts == UNION { [1..n -> LineSet] : n \in 0..MaxLines }

\* max_scan / max_lines as the callers pass it
DefaultMaxScanPackage == 30
DefaultMaxScanCms == 20
DefaultMaxLines == 50

\* bool(ln.strip()): the line's text has a character that is not white space
HasText(ln) ==
    \/ ln.bad
    \/ Len(ln.cells) >= 2
    \/ Len(ln.cells) = 1 /\ Strip(ln.cells[1]) # <<>>

\* [c.strip().lower() for c in _csv_cells(line)]
CellsLower(ln) == [i \in 1..Len(ln.cells) |-> Lower(Strip(ln.cells[i]))]

\* [c.strip() for c in _csv_cells(line)]
CellsStrip(ln) == [i \in 1..Len(ln.cells) |-> Strip(ln.cells[i])]

\* the three rows at lines[i], lines[i+1], lines[i+2] parse and are non-empty
\* lists (i is the 0-based Python index)
Parses3(lines, i) ==
    /\ ~lines[i + 1].bad /\ ~lines[i + 2].bad /\ ~lines[i + 3].bad
    /\ lines[i + 1].cells # <<>>
    /\ lines[i + 2].cells # <<>>
    /\ lines[i + 3].cells # <<>>

\* hits = sum(1 for k in wanted if k in r1)
LabelHits(r1) == Cardinality({k \in wanted : k \in Range(r1)})

HasIndicator(cell, indicators) == \E ind \in indicators : Contains(ind, cell)

\* sum(1 for cell in row if any(indicator in cell for indicator in indicators)):
\* cells are counted with their multiplicity
IndicatorHits(row, indicators) ==
    Cardinality({i \in 1..Len(row) : HasIndicator(row[i], indicators)})

\* sum(1 for h in lowered if h in CMS_KEY_HEADERS)
KeyHeaderHits(row) == Cardinality({i \in 1..Len(row) : row[i] \in CMS_KEY_HEADERS})

\* first heuristic: hits >= 2 and len(r1) == len(r2)
DomainPreambleAt(lines, i) ==
    /\ Parses3(lines, i)
    /\ LabelHits(CellsLower(lines[i + 1])) >= 2
    /\ Len(lines[i + 1].cells) = Len(lines[i + 2].cells)

\* second heuristic: hospital_hits >= 2 and data_hits >= 2 and equal lengths
GenericMetadataAt(lines, i) ==
    /\ Parses3(lines, i)
    /\ IndicatorHits(CellsLower(lines[i + 1]), hospital_indicators) >= 2
    /\ IndicatorHits(CellsLower(lines[i + 3]), data_indicators) >= 2
    /\ Len(lines[i + 1].cells) = Len(lines[i + 2].cells)

\* meta = {}; for k, v in zip(r1, r2): if k and v: meta[k] = v
RECURSIVE ZipMeta(_, _, _)
ZipMeta(r1, r2, n) ==
    IF n = 0 THEN <<>>
    ELSE LET m == ZipMeta(r1, r2, n - 1)
             k == r1[n]
             v == r2[n]
         IN IF k # <<>> /\ v # <<>>
            THEN [x \in (DOMAIN m) \cup {k} |-> IF x = k THEN v ELSE m[x]]
            ELSE m

Reverse(row) == [n \in 1..Len(row) |-> row[Len(row) + 1 - n]]

\* BuildMeta that keeps the value of a label's first occurrence
BuildMeta_FirstWins(lines, i) ==
    LET r1 == Reverse(CellsLower(lines[i + 1]))
        r2 == Reverse(CellsStrip(lines[i + 2]))
    IN ZipMeta(r1, r2, Min(Len(r1), Len(r2)))

BuildMeta(lines, i) ==
    LET r1 == CellsLower(lines[i + 1])
        r2 == CellsStrip(lines[i + 2])
    IN ZipMeta(r1, r2, Min(Len(r1), Len(r2)))

\* range(min(max_scan, len(lines) - 2))
ScanRange(lines, max_scan) == 0..(Min(max_scan, Len(lines) - 2) - 1)

Smallest(S) == CHOOSE x \in S : \A y \in S : x <= y

Largest(S) == CHOOSE x \in S : \A y \in S : y <= x

\* any(cells) for the stripped cells of a line
AnyCell(ln) == \E i \in 1..Len(ln.cells) : Strip(ln.cells[i]) # <<>>

SniffResult(raised, idx, meta, hdr, n) ==
    [raised |-> raised, idx |-> idx, preamble |-> meta, headers |-> hdr,
     nlines |-> n]

\* FallbackScan with the index of the row it stops at dropped
FallbackScan_ReturnsZero(lines, lowerHeaders) ==
    IF \E j \in 0..(Len(lines) - 1) :
          /\ lines[j + 1].bad
          /\ \A k \in 0..j : ~AnyCell(lines[k + 1])
    THEN SniffResult(TRUE, 0, <<>>, <<>>, Len(lines))
    ELSE SniffResult(FALSE, 0, <<>>, <<>>, Len(lines))

\* the fallback loop, whose _csv_cells call is not guarded: the first line
\* (0-based j) with a non-empty cell, or a raise at a rejected line before it
FallbackScan(lines, lowerHeaders) ==
    LET stops == {j \in 0..(Len(lines) - 1) :
                     lines[j + 1].bad \/ AnyCell(lines[j + 1])}
    IN IF stops = {} THEN SniffResult(FALSE, 0, <<>>, <<>>, Len(lines))
       ELSE LET j == Smallest(stops)
            IN IF lines[j + 1].bad
               THEN SniffResult(TRUE, 0, <<>>, <<>>, Len(lines))
               ELSE SniffResult(FALSE, j, <<>>,
                                IF lowerHeaders THEN CellsLower(lines[j + 1])
                                ELSE <<>>, Len(lines))

\* one pass over the candidates that tries both heuristics at each
ScanPreamble_OnePass(lines, max_scan, keepHeaders) ==
    LET either == {i \in ScanRange(lines, max_scan) :
                      DomainPreambleAt(lines, i) \/ GenericMetadataAt(lines, i)}
    IN IF either # {}
       THEN SniffResult(FALSE, Smallest(either) + 2, BuildMeta(lines, Smallest(either)),
                        IF keepHeaders THEN CellsLower(lines[Smallest(either) + 3])
                        ELSE <<>>, Len(lines))
       ELSE FallbackScan(lines, keepHeaders)

\* both preamble sniffers after the line list is built
ScanPreamble(lines, max_scan, keepHeaders) ==
    LET first == {i \in ScanRange(lines, max_scan) : DomainPreambleAt(lines, i)}
        second == {i \in ScanRange(lines, max_scan) : GenericMetadataAt(lines, i)}
        hit(i) == SniffResult(FALSE, i + 2, BuildMeta(lines, i),
                              IF keepHeaders THEN CellsLower(lines[i + 3])
                              ELSE <<>>, Len(lines))
    IN IF first # {} THEN hit(Smallest(first))
       ELSE IF second # {} THEN hit(Smallest(second))
       ELSE FallbackScan(lines, keepHeaders)

\* clearcare_compliance.csv_validator.find_preamble_and_header_row:
\* blank lines are filtered before the scan
find_preamble_and_header_row(txt, max_scan) ==
    ScanPreamble(SelectSeq(txt, HasText), max_scan, TRUE)

\* app.cms_csv._try_parse_preamble on the lines parse_cms_csv hands it:
\* every line of the prefix, blank ones included
try_parse_preamble(txt, max_scan) == ScanPreamble(txt, max_scan, FALSE)

\* find_header_row returning the scan limit, not 0, when no row qualifies
find_header_row_ReturnsLimit(txt, max_lines) ==
    LET limit == Min(max_lines, Len(txt))
        found == {idx \in 0..(limit - 1) :
                     /\ ~txt[idx + 1].bad
                     /\ KeyHeaderHits(CellsLower(txt[idx + 1])) >= 3}
    IN SniffResult(FALSE, IF found # {} THEN Smallest(found) ELSE limit,
                   <<>>, <<>>, Len(txt))

\* app.csv_header_sniffer.find_header_row
find_header_row(txt, max_lines) ==
    LET limit == Min(max_lines, Len(txt))
        found == {idx \in 0..(limit - 1) :
                     /\ ~txt[idx + 1].bad
                     /\ KeyHeaderHits(CellsLower(txt[idx + 1])) >= 3}
    IN SniffResult(FALSE, IF found # {} THEN Smallest(found) ELSE 0,
                   <<>>, <<>>, Len(txt))

\* validate_csv_run's detected_header_row for an uploaded CSV: the header
\* row analyze_cms_csv found, or, when the analysis raised, the header_row
\* the upload stored in the run's metadata
detected_header_row(txt) ==
    LET cms == try_parse_preamble(txt, DefaultMaxScanCms)
    IN IF cms.raised THEN find_header_row(txt, DefaultMaxLines).idx ELSE cms.idx

(***************************************************************************)
(* The sniffers as operations on an input text                             *)
(***************************************************************************)
NoOut == [fn |-> "none"]

SniffOut(fn, max_scan, res) == [fn |-> fn, max_scan |-> max_scan, res |-> res]

\* no run in the service: no row, no file, no request
CsvIdle ==
    /\ csvFile = <<>>
    /\ result = <<>>

ServiceIdle ==
    /\ runs = <<>>
    /\ uploaded = <<>>
    /\ evidence = <<>>
    /\ pc = <<>>

\* no header list under classification
LayoutIdle ==
    /\ hdrInput = [hdrs |-> <<>>, extra |-> 0]
    /\ layoutOut = NoOut

\* no header list under profile detection
ProfileIdle ==
    /\ profIn = [a |-> <<>>, b |-> <<>>]
    /\ profOut = NoOut

\* no files under rule evaluation
RulesIdle ==
    /\ runIn = NoOut
    /\ report = NoOut
    /\ rerun = NoOut

InitSniff ==
    /\ text \in Texts
    /\ sniffOut = NoOut
    /\ LayoutIdle
    /\ ProfileIdle
    /\ RulesIdle
    /\ ServiceIdle
    /\ CsvIdle

FindPreambleAndHeaderRow ==
    /\ sniffOut = NoOut
    /\ \E ms \in {1, DefaultMaxScanPackage} :
          sniffOut' = SniffOut("find_preamble_and_header_row", ms,
                               find_preamble_and_header_row(text, ms))
    /\ UNCHANGED text
    /\ UNCHANGED notSniffVars

TryParsePreamble ==
    /\ sniffOut = NoOut
    /\ \E ms \in {1, DefaultMaxScanCms} :
          sniffOut' = SniffOut("_try_parse_preamble", ms,
                               try_parse_preamble(text, ms))
    /\ UNCHANGED text
    /\ UNCHANGED notSniffVars

FindHeaderRow ==
    /\ sniffOut = NoOut
    /\ \E ml \in {1, DefaultMaxLines} :
          sniffOut' = SniffOut("find_header_row", ml, find_header_row(text, ml))
    /\ UNCHANGED text
    /\ UNCHANGED notSniffVars

NextSniff == FindPreambleAndHeaderRow \/ TryParsePreamble \/ FindHeaderRow

SpecSniff == InitSniff /\ [][NextSniff]_vars

\* a header row of two cells
RowPairHeader == Row(<<S_billing_code, S_standard_charge>>)

\* texts in which a metadata block and a labelled preamble can overlap
ScanLineSet ==
    { RowMeta, RowLabels, RowValues, RowPairHeader, RowHeader, EmptyLine, BadLine }

ScanTexts == UNION { [1..n -> ScanLineSet] : n \in 0..MaxLines }

InitScan ==
    /\ text \in ScanTexts
    /\ sniffOut = NoOut
    /\ LayoutIdle
    /\ ProfileIdle
    /\ RulesIdle
    /\ ServiceIdle
    /\ CsvIdle

SpecScan == InitScan /\ [][NextSniff]_vars

\* a label row that names one label twice, in two spellings
RowTwiceLabel == Row(<<C_Hospital_Name, <<"h","o","s","p","i","t","a","l"," ","n","a","m","e"," ">>>>)

\* a label row with an empty cell between its labels
RowLabelsGap == Row(<<C_MRF_Date, <<>>, C_CMS_Template_Version>>)

\* value rows, one with an empty last cell
RowValueGap == Row(<<C_Acme, <<" ">>>>)
RowValues3 == Row(<<C_2_0, C_Updated, C_Acme>>)

\* texts in which label rows meet value rows of their length
PairLineSet ==
    { RowLabels, RowTwiceLabel, RowLabelsGap, RowValues, RowValueGap, RowValues3,
      RowHeader }

PairTexts == UNION { [1..n -> PairLineSet] : n \in 0..MaxLines }

InitPairs ==
    /\ text \in PairTexts
    /\ sniffOut = NoOut
    /\ LayoutIdle
    /\ ProfileIdle
    /\ RulesIdle
    /\ ServiceIdle
    /\ CsvIdle

SpecPairs == InitPairs /\ [][NextSniff]_vars

(***************************************************************************)
(* The header of an uploaded file                                          *)
(***************************************************************************)
\* a line that opens a quoted field and does not close it: "Notes: one
RowOpens == [bad |-> FALSE, cells |-> << <<"N","o","t","e","s",":"," ","o","n","e">> >>,
             quote |-> "opens"]

\* a line that holds a quote inside its first field: two",x
RowCloses == [bad |-> FALSE, cells |-> << <<"t","w","o","\"">>, <<"x">> >>,
              quote |-> "closes"]

\* what a line does to a quoted field: none of the other lines holds a quote
QuoteOf(ln) == IF "quote" \in DOMAIN ln THEN ln.quote ELSE "none"

RECURSIVE JoinCells(_)
JoinCells(cells) ==
    IF cells = <<>> THEN <<>>
    ELSE IF Len(cells) = 1 THEN cells[1]
    ELSE cells[1] \o <<",">> \o JoinCells(Tail(cells))

\* csv.reader over the open file: the rows it yields for the lines from the
\* k-th on, after the rows acc, with the quoted field it is inside of in pend
\* (<<>> outside a quoted field). A quote is closed by the next quote
\* character; a line without one is part of the field.
RECURSIVE ReaderRows(_, _, _, _)
ReaderRows(lines, k, acc, pend) ==
    IF k > Len(lines)
    THEN IF pend = <<>> THEN acc ELSE Append(acc, Row(pend))
    ELSE LET ln == lines[k]
             field == pend[1] \o <<"\n">>
         IN IF pend = <<>>
            THEN IF QuoteOf(ln) = "opens"
                 THEN ReaderRows(lines, k + 1, acc, <<ln.cells[1]>>)
                 ELSE ReaderRows(lines, k + 1,
                                 Append(acc, [bad |-> ln.bad, cells |-> ln.cells]), <<>>)
            ELSE IF ln.bad
                 THEN ReaderRows(lines, k + 1, Append(acc, BadLine), <<>>)
            ELSE IF QuoteOf(ln) = "opens"
                 THEN ReaderRows(lines, k + 1,
                                 Append(acc, Row(<<field \o ln.cells[1]>>)), <<>>)
            ELSE IF QuoteOf(ln) = "closes"
                 THEN ReaderRows(lines, k + 1,
                                 Append(acc, Row(<<field \o SubSeq(ln.cells[1], 1, Len(ln.cells[1]) - 1)>>
                                                 \o Tail(ln.cells))), <<>>)
            ELSE ReaderRows(lines, k + 1, acc, <<field \o JoinCells(ln.cells)>>)

\* app.csv_header_sniffer.extract_header: the header_row-th row (0-based)
\* csv.reader yields, lower-cased and stripped; [] when the file has fewer
\* rows; the reader's error when a row up to that one is rejected
extract_header(lines, header_row) ==
    LET rows == ReaderRows(lines, 1, <<>>, <<>>)
    IN IF \E i \in 0..Min(header_row, Len(rows) - 1) : rows[i + 1].bad
       THEN SniffResult(TRUE, header_row, <<>>, <<>>, Len(lines))
       ELSE IF header_row >= Len(rows)
       THEN SniffResult(FALSE, header_row, <<>>, <<>>, Len(lines))
       ELSE SniffResult(FALSE, header_row, <<>>, CellsLower(rows[header_row + 1]),
                        Len(lines))

\* a data row
RowData == Row(<< <<"9","9","2","1","3">>, <<"C","P","T">>, <<"1","2","8">> >>)

UploadLineSet ==
    { RowMeta, RowOpens, RowCloses, RowHeader, RowData, EmptyLine, BadLine }

UploadTexts == UNION { [1..n -> UploadLineSet] : n \in 0..MaxLines }

InitUpload ==
    /\ text \in UploadTexts
    /\ sniffOut = NoOut
    /\ LayoutIdle
    /\ ProfileIdle
    /\ RulesIdle
    /\ ServiceIdle
    /\ CsvIdle

\* stream_csv_to_parquet and validate_csv_run:
\* header_row = find_header_row(prefix); headers = extract_header(path, header_row)
SniffUploadHeader ==
    /\ sniffOut = NoOut
    /\ \E ml \in {DefaultMaxLines} :
          sniffOut' = SniffOut("extract_header", ml,
                               extract_header(text, find_header_row(text, ml).idx))
    /\ UNCHANGED text
    /\ UNCHANGED notSniffVars

NextUpload == SniffUploadHeader

SpecUpload == InitUpload /\ [][NextUpload]_vars

(***************************************************************************)
(* Layout classifiers                                                      *)
(***************************************************************************)
S_payer_name == <<"p","a","y","e","r","_","n","a","m","e">>
S_plan_name == <<"p","l","a","n","_","n","a","m","e">>
S_plan == <<"p","l","a","n">>
S_pipe == <<"|">>

\* the words of the payer/plan test in guess_csv_layout
payer_plan_words ==
    { S_payer, S_plan, <<"i","n","s","u","r","a","n","c","e">>,
      <<"h","m","o">>, <<"p","p","o">> }

base_tall ==
    { S_billing_code_type, S_billing_code, S_description, S_standard_charge,
      S_payer, S_plan, S_payer_name, S_plan_name }

\* base of sniff_layout_from_headers
base_wide == { S_billing_code_type, S_billing_code, S_description }

WideColumnThreshold == 25

C_Aetna_Silver_HMO ==
    <<"A","e","t","n","a","|","S","i","l","v","e","r"," ","H","M","O">>
C_Cigna_Gold_PPO == <<"C","i","g","n","a","|","G","o","l","d"," ","P","P","O">>
C_a_b == <<"a","|","b">>
C_col == <<"c","o","l">>

\* header cells as a file may carry them
HeaderSet ==
    { S_billing_code, S_billing_code_type, C_Description, S_payer_name,
      S_plan_name, C_Aetna_Silver_HMO, C_Cigna_Gold_PPO, C_a_b, C_col }

\* numbers of further columns with anonymous names (no pipe, no vocabulary
\* word), so that the column count can pass the threshold
ExtraColumns == {0, WideColumnThreshold - 2, WideColumnThreshold - 1, WideColumnThreshold}

HeaderInputs ==
    [hdrs : UNION { [1..n -> HeaderSet] : n \in 0..MaxHeaders },
     extra : ExtraColumns]

\* [h for h in headers_lower if "|" in h and any(word in h for word in [...])]
payer_plan_pipes(headers_lower) ==
    {i \in 1..Len(headers_lower) :
        /\ Contains(S_pipe, headers_lower[i])
        /\ \E word \in payer_plan_words : Contains(word, headers_lower[i])}

\* guess_csv_layout with >= 3 in place of >= 2
guess_csv_layout_ThreePipes(headers_lower, extra) ==
    LET pipes == Cardinality(payer_plan_pipes(headers_lower))
        has_tall_indicators == base_tall \cap Range(headers_lower) # {}
    IN IF pipes >= 3 THEN "csv_wide"
       ELSE IF S_payer_name \in Range(headers_lower)
               /\ S_plan_name \in Range(headers_lower) THEN "csv_tall"
       ELSE IF has_tall_indicators /\ pipes <= 1 THEN "csv_tall"
       ELSE IF Len(headers_lower) + extra > WideColumnThreshold THEN "csv_wide"
       ELSE "csv_tall"

\* clearcare_compliance.detectors.guess_csv_layout on the named headers
\* followed by `extra` anonymous ones
guess_csv_layout(headers_lower, extra) ==
    LET pipes == Cardinality(payer_plan_pipes(headers_lower))
        has_tall_indicators == base_tall \cap Range(headers_lower) # {}
    IN IF pipes >= 2 THEN "csv_wide"
       ELSE IF S_payer_name \in Range(headers_lower)
               /\ S_plan_name \in Range(headers_lower) THEN "csv_tall"
       ELSE IF has_tall_indicators /\ pipes <= 1 THEN "csv_tall"
       ELSE IF Len(headers_lower) + extra > WideColumnThreshold THEN "csv_wide"
       ELSE "csv_tall"

\* app.cms_csv.sniff_layout_from_headers
sniff_layout_from_headers(headers, extra) ==
    IF \E i \in 1..Len(headers) : Contains(S_pipe, headers[i]) THEN "wide"
    ELSE IF base_wide \subseteq Range(headers)
            /\ Len(headers) + extra > WideColumnThreshold THEN "wide"
    ELSE "tall"

\* the header row as both callers hand it over: stripped and lower-cased
HeadersLower(hdrs) == [i \in 1..Len(hdrs) |-> Lower(Strip(hdrs[i]))]

LayoutOut(fn, layout) == [fn |-> fn, layout |-> layout]

SniffIdle ==
    /\ text = <<>>
    /\ sniffOut = NoOut

InitLayout ==
    /\ hdrInput \in HeaderInputs
    /\ layoutOut = NoOut
    /\ SniffIdle
    /\ ProfileIdle
    /\ RulesIdle
    /\ ServiceIdle
    /\ CsvIdle

\* validate_csv: layout = guess_csv_layout(headers_lower)
GuessCsvLayout ==
    /\ layoutOut = NoOut
    /\ layoutOut' = LayoutOut("guess_csv_layout",
                              guess_csv_layout(HeadersLower(hdrInput.hdrs),
                                               hdrInput.extra))
    /\ UNCHANGED hdrInput
    /\ UNCHANGED notLayoutVars

\* parse_cms_csv: layout = sniff_layout_from_headers(headers)
SniffLayoutFromHeaders ==
    /\ layoutOut = NoOut
    /\ layoutOut' = LayoutOut("sniff_layout_from_headers",
                              sniff_layout_from_headers(HeadersLower(hdrInput.hdrs),
                                                        hdrInput.extra))
    /\ UNCHANGED hdrInput
    /\ UNCHANGED notLayoutVars

NextLayout == GuessCsvLayout \/ SniffLayoutFromHeaders

SpecLayout == InitLayout /\ [][NextLayout]_vars

(***************************************************************************)
(* Profile detection                                                       *)
(***************************************************************************)
\* str.replace(old, new) for one-character old
Replace(s, old, new) == [i \in 1..Len(s) |-> IF s[i] = old THEN new ELSE s[i]]

\* normalize_header with the trim after the replacements
normalize_header_StripLast(header) ==
    Strip(Replace(Replace(Lower(header), " ", "_"), "-", "_"))

\* header.lower().strip().replace(" ", "_").replace("-", "_")
normalize_header(header) ==
    Replace(Replace(Strip(Lower(header)), " ", "_"), "-", "_")

cms_indicators ==
    { S_billing_code, S_billing_code_type,
      <<"b","i","l","l","i","n","g","_","c","o","d","e","_","t","y","p","e",
        "_","v","e","r","s","i","o","n">>,
      S_standard_charge, S_payer_name }

\* app.profiles.detect_profile
detect_profile(headers) ==
    LET normalized_headers == {normalize_header(headers[i]) : i \in 1..Len(headers)}
        cms_matches == Cardinality({ind \in cms_indicators : ind \in normalized_headers})
    IN IF cms_matches >= 2 THEN "cms_csv" ELSE "simple_csv"

C_Billing_Code == <<" ","B","i","l","l","i","n","g"," ","C","o","d","e"," ">>
C_billing_hyphen_code == <<"b","i","l","l","i","n","g","-","c","o","d","e">>
C_STANDARD_CHARGE == <<"S","T","A","N","D","A","R","D","_","C","H","A","R","G","E">>
C_standard_charge_spaced ==
    <<"s","t","a","n","d","a","r","d"," ","c","h","a","r","g","e">>
C_underscore_billing_code == <<"_","b","i","l","l","i","n","g","_","c","o","d","e">>

\* headers as files spell them
ProfileHeaderSet ==
    { S_billing_code, C_Billing_Code, C_billing_hyphen_code, C_STANDARD_CHARGE,
      C_standard_charge_spaced, C_underscore_billing_code, S_description }

ProfileHeaderLists ==
    UNION { [1..n -> ProfileHeaderSet] : n \in 0..MaxProfileHeaders }

InitProfile ==
    /\ profIn \in [a : ProfileHeaderLists, b : ProfileHeaderLists]
    /\ profOut = NoOut
    /\ SniffIdle
    /\ LayoutIdle
    /\ RulesIdle
    /\ ServiceIdle
    /\ CsvIdle

\* detect_profile on two header lists, one call each
DetectProfile ==
    /\ profOut = NoOut
    /\ profOut' = [fn |-> "detect_profile",
                   a |-> detect_profile(profIn.a),
                   b |-> detect_profile(profIn.b)]
    /\ UNCHANGED profIn
    /\ UNCHANGED notProfileVars

NextProfile == DetectProfile

SpecProfile == InitProfile /\ [][NextProfile]_vars

(***************************************************************************)
(* Rule evaluation: datasets                                               *)
(*                                                                         *)
(* A dataset is the Parquet file as polars reads it: ordered column names, *)
(* a dtype per column and rows.  A cell is the text of its value (numbers  *)
(* by their decimal rendering) or NULL.                                    *)
(***************************************************************************)
S_code == <<"c","o","d","e">>
S_code_system == <<"c","o","d","e","_","s","y","s","t","e","m">>
S_gross_price == <<"g","r","o","s","s","_","p","r","i","c","e">>
S_cash_price == <<"c","a","s","h","_","p","r","i","c","e">>
S_date == <<"d","a","t","e">>
S_error == <<"e","r","r","o","r">>
S_count == <<"c","o","u","n","t">>

\* names of the columns the checks derive
S__numeric == <<"_","n","u","m","e","r","i","c">>
S__upper == <<"_","u","p","p","e","r">>
S_cash_numeric == <<"c","a","s","h","_","n","u","m","e","r","i","c">>
S_gross_numeric == <<"g","r","o","s","s","_","n","u","m","e","r","i","c">>
S_date_parsed == <<"d","a","t","e","_","p","a","r","s","e","d">>

\* the null of a polars column; no text equals it
NULL == <<"NULL">>

V_A1 == <<"A","1">>
V_b2 == <<"b","2">>
V_minus1 == <<"-","1">>
V_1 == <<"1">>
V_2 == <<"2">>
V_x == <<"x">>
V_CPT == <<"C","P","T">>
V_cpt == <<"c","p","t">>
V_ZZ == <<"Z","Z">>
V_old_date == <<"2","0","2","0","-","0","1","-","0","1">>
V_fresh_date == <<"2","0","3","0","-","0","1","-","0","1">>
V_no_date == <<"n","/","a">>

\* the values a column may hold in the datasets with the columns `cols`
ColumnValues(c, cols) ==
    CASE c = S_code -> {V_A1, V_b2, NULL}
      [] c = S_billing_code -> {V_A1, NULL}
      [] c = S_gross_price ->
            IF S_cash_price \in Range(cols) THEN {V_1, V_2, NULL}
            ELSE {V_minus1, V_1, V_2}
      [] c = S_standard_charge -> {V_minus1, V_2}
      [] c = S_cash_price -> {V_2, V_x}
      [] c = S_date -> {V_old_date, V_fresh_date, V_no_date}
      [] c = S_code_system -> {V_CPT, V_cpt, V_ZZ}
      [] c = S_billing_code_type -> {V_CPT}

\* the dtype the Parquet schema gives each column
ColumnDtype(c) ==
    IF c \in {S_gross_price, S_standard_charge} THEN "Float64" ELSE "Utf8"

\* column lists of the datasets
ColumnLists ==
    { <<S_code>>, <<S_gross_price>>, <<S_cash_price, S_gross_price>>,
      <<S_date>>, <<S_code_system>>, <<S_billing_code, S_standard_charge>>,
      <<S_billing_code_type, S_billing_code>> }

RowsOver(cols) == [Range(cols) -> UNION {ColumnValues(c, cols) : c \in Range(cols)}]

\* a readable dataset: pl.read_parquet succeeds
DataFrame(cols, rows) ==
    [readable |-> TRUE, columns |-> cols,
     dtype |-> [c \in Range(cols) |-> ColumnDtype(c)], rows |-> rows]

\* a Parquet file polars cannot read
UnreadableDataset ==
    [readable |-> FALSE, columns |-> <<>>, dtype |-> <<>>, rows |-> <<>>]

Datasets ==
    {UnreadableDataset} \cup
    UNION { { DataFrame(cols, rows) :
                rows \in UNION { [1..n -> {r \in RowsOver(cols) :
                                              \A c \in Range(cols) : r[c] \in ColumnValues(c, cols)}]
                                 : n \in 0..MaxRows } }
            : cols \in ColumnLists }

\* col in df.columns
HasColumn(df, c) == c \in Range(df.columns)

\* df.height
Height(df) == Len(df.rows)

(***************************************************************************)
(* Rule evaluation: conversions polars applies to cells                    *)
(***************************************************************************)
DIGITS == <<"0","1","2","3","4","5","6","7","8","9">>

IsDigit(c) == \E i \in 1..10 : DIGITS[i] = c

DigitValue(c) == (CHOOSE i \in 1..10 : DIGITS[i] = c) - 1

\* the number a run of digits denotes
RECURSIVE NatOf(_)
NatOf(s) ==
    IF s = <<>> THEN 0 ELSE 10 * NatOf(SubSeq(s, 1, Len(s) - 1)) + DigitValue(s[Len(s)])

AllDigits(s) == s # <<>> /\ \A i \in 1..Len(s) : IsDigit(s[i])

\* pl.col(c).cast(pl.Float64, strict=False) on one cell: the number, or null
\* for a null cell and for text that is not a number
CastFloat64(v) ==
    IF v = NULL THEN [null |-> TRUE, n |-> 0]
    ELSE IF AllDigits(v) THEN [null |-> FALSE, n |-> NatOf(v)]
    ELSE IF Len(v) > 1 /\ v[1] = "-" /\ AllDigits(Tail(v))
         THEN [null |-> FALSE, n |-> 0 - NatOf(Tail(v))]
    ELSE [null |-> TRUE, n |-> 0]

\* days since 1970-01-01 of a civil date
DaysFromCivil(y, m, d) ==
    LET yy == IF m <= 2 THEN y - 1 ELSE y
        era == yy \div 400
        yoe == yy - era * 400
        mp == IF m > 2 THEN m - 3 ELSE m + 9
        doy == (153 * mp + 2) \div 5 + d - 1
        doe == yoe * 365 + yoe \div 4 - yoe \div 100 + doy
    IN era * 146097 + doe - 719468

\* text of the form YYYY-MM-DD
IsIsoDate(v) ==
    /\ v # NULL
    /\ Len(v) = 10
    /\ v[5] = "-" /\ v[8] = "-"
    /\ AllDigits(SubSeq(v, 1, 4)) /\ AllDigits(SubSeq(v, 6, 7))
    /\ AllDigits(SubSeq(v, 9, 10))

\* pl.col(c).str.to_datetime() on one cell, as a day number: null stays
\* null, text that is no date makes the whole expression raise
to_datetime(v) ==
    IF v = NULL THEN [null |-> TRUE, raises |-> FALSE, day |-> 0]
    ELSE IF IsIsoDate(v)
         THEN [null |-> FALSE, raises |-> FALSE,
               day |-> DaysFromCivil(NatOf(SubSeq(v, 1, 4)), NatOf(SubSeq(v, 6, 7)),
                                     NatOf(SubSeq(v, 9, 10)))]
    ELSE [null |-> FALSE, raises |-> TRUE, day |-> 0]

\* str.upper() on one character
UpperChar(c) ==
    IF \E i \in 1..26 : LOWER[i] = c
    THEN UPPER[CHOOSE i \in 1..26 : LOWER[i] = c]
    ELSE c

\* str.upper(), str.to_uppercase(); null stays null
Upper(s) == IF s = NULL THEN NULL ELSE [i \in 1..Len(s) |-> UpperChar(s[i])]

\* characters in code-point order, as far as the classes of a pattern go
ALPHABET == DIGITS \o UPPER \o LOWER

CharCode(c) ==
    IF \E i \in 1..Len(ALPHABET) : ALPHABET[i] = c
    THEN CHOOSE i \in 1..Len(ALPHABET) : ALPHABET[i] = c
    ELSE 0

\* the patterns of the registries are runs of classes [x-y]; any other text
\* is one the regex engine rejects
ClassWidth == 5

IsClassAt(p, k) ==
    /\ p[k] = "[" /\ p[k + 2] = "-" /\ p[k + 4] = "]"
    /\ CharCode(p[k + 1]) > 0 /\ CharCode(p[k + 3]) >= CharCode(p[k + 1])

RegexCompiles(p) ==
    /\ Len(p) % ClassWidth = 0
    /\ \A j \in 0..(Len(p) \div ClassWidth - 1) : IsClassAt(p, j * ClassWidth + 1)

\* pl.col(c).str.contains("^" + pattern + "$") on one non-null cell
FullMatch(p, v) ==
    /\ Len(v) = Len(p) \div ClassWidth
    /\ \A j \in 1..Len(v) :
          /\ CharCode(v[j]) >= CharCode(p[(j - 1) * ClassWidth + 2])
          /\ CharCode(v[j]) <= CharCode(p[(j - 1) * ClassWidth + 4])
          /\ CharCode(v[j]) > 0

(***************************************************************************)
(* Rule evaluation: registries                                             *)
(*                                                                         *)
(* A registry is the YAML rule file as loaded: a mapping with one entry    *)
(* list per rule kind (a YAML mapping keeps the order of its keys), the    *)
(* profile requirements and the error_reporting block.                     *)
(***************************************************************************)
\* the order in which run_rules calls the check functions
EvalOrder ==
    << "column_types", "value_ranges", "non_negative", "duplicates_by",
       "date_within_days", "cash_leq_gross", "enum_values", "pattern_match",
       "not_null" >>

\* "max_failing_rows_per_rule" when error_reporting does not give it
DefaultMaxFailingRows == 5

P_letter_digit == <<"[","A","-","Z","]","[","0","-","9","]">>
P_open_group == <<"(">>

CT_gross_float == [col |-> S_gross_price, type |-> "float", type_is_list |-> FALSE]
CT_code_float == [col |-> S_code, type |-> "float", type_is_list |-> FALSE]
\* column_types: {gross_price: [float]}
CT_gross_list == [col |-> S_gross_price, type |-> "float", type_is_list |-> TRUE]
VR_gross == [col |-> S_gross_price, is_mapping |-> TRUE, min |-> 0, max |-> 1]
\* value_ranges: {gross_price: } (a key without a value)
VR_gross_null == [col |-> S_gross_price, is_mapping |-> FALSE, min |-> 0, max |-> 0]
NN_gross == [col |-> S_gross_price]
DUP_code_price == [columns |-> <<S_code, S_gross_price>>]
DATE_month == [column |-> S_date, max_days |-> 30]
CASH_enabled ==
    [enabled |-> TRUE, cash_column |-> S_cash_price, gross_column |-> S_gross_price]
ENUM_exact == [col |-> S_code_system, allowed |-> {V_CPT}, case_sensitive |-> TRUE]
ENUM_anycase == [col |-> S_code_system, allowed |-> {V_CPT}, case_sensitive |-> FALSE]
PAT_code == [col |-> S_code, pattern |-> P_letter_digit]
PAT_broken == [col |-> S_code, pattern |-> P_open_group]
NOTNULL_code == [col |-> S_code]

\* not_null: [code, gross_price, date]
NOTNULL_all == << [col |-> S_code], [col |-> S_gross_price], [col |-> S_date] >>

NoRules == [k \in Range(EvalOrder) |-> <<>>]

Only(kind, entry) == [NoRules EXCEPT ![kind] = <<entry>>]

\* rule sections with at most one rule in them
FocusSections ==
    { NoRules,
      Only("column_types", CT_gross_float), Only("column_types", CT_code_float),
      Only("column_types", CT_gross_list),
      Only("value_ranges", VR_gross), Only("value_ranges", VR_gross_null),
      Only("non_negative", NN_gross),
      Only("duplicates_by", DUP_code_price),
      Only("date_within_days", DATE_month),
      Only("cash_leq_gross", CASH_enabled),
      Only("enum_values", ENUM_exact), Only("enum_values", ENUM_anycase),
      Only("pattern_match", PAT_code), Only("pattern_match", PAT_broken),
      Only("not_null", NOTNULL_code) }

\* error_reporting blocks: absent, or with max_failing_rows_per_rule
ErrorReportingChoices ==
    { <<>>, <<[max_failing_rows_per_rule |-> 0]>>, <<[max_failing_rows_per_rule |-> 1]>> }

\* the profile requirements of the registries
Profiles ==
    [cms_csv |-> [required_headers |-> <<C_Billing_Code, S_standard_charge>>,
                  required_columns |-> <<>>],
     simple_csv |-> [required_headers |-> <<>>,
                     required_columns |-> <<S_code>>]]

Registry(sections, er) ==
    [readable |-> TRUE, profiles |-> Profiles, error_reporting |-> er,
     sections |-> sections]

\* a registry file that is missing or is not YAML
UnreadableRegistry ==
    [readable |-> FALSE, profiles |-> Profiles, error_reporting |-> <<>>,
     sections |-> NoRules]

\* the registries: one rule at most with every error_reporting block, and
\* the same followed by the not_null list
Registries ==
    {UnreadableRegistry} \cup
    { Registry(s, er) : s \in FocusSections, er \in ErrorReportingChoices } \cup
    { Registry([s EXCEPT !["not_null"] = NOTNULL_all], <<>>) : s \in FocusSections }

\* what stands beside the Parquet file and what the caller passes:
\* csv is the layout analyze_cms_csv found in the CSV beside it ("none": no
\* CSV there, or the analysis failed), hint the profile argument
RunContexts ==
    { [csv |-> "none", hint |-> "none"], [csv |-> "tall", hint |-> "none"],
      [csv |-> "wide", hint |-> "cms_csv"] }

\* datetime.now() as a day number
Today == DaysFromCivil(2026, 11, 3)

(***************************************************************************)
(* Rule evaluation: the check functions, one rule at a time                *)
(***************************************************************************)
\* a CheckResult: the rule it is for, its status, the violation count and
\* sample of its details, the missing columns it names, the exception text
CheckResult(kind, on, status, count, failing_rows, missing, error) ==
    [rule |-> [kind |-> kind, on |-> on], status |-> status, count |-> count,
     failing_rows |-> failing_rows, missing |-> missing, error |-> error]

NoCheck == CheckResult("none", <<>>, "none", 0, <<>>, {}, "")

Pass(kind, on) == CheckResult(kind, on, "pass", 0, <<>>, {}, "")

Fail(kind, on, count, failing_rows) ==
    CheckResult(kind, on, "fail", count, failing_rows, {}, "")

Error(kind, on, error) == CheckResult(kind, on, "error", 0, <<>>, {}, error)

\* what evaluating one rule comes to: the rule is passed over, a CheckResult
\* is appended, or an exception leaves the check function
Skipped == [out |-> "skip", check |-> NoCheck]
Appended(check) == [out |-> "result", check |-> check]
Raised(kind, on, error) == [out |-> "raise", check |-> Error(kind, on, error)]

\* the rows of a set of row numbers, in dataset order
RowsAt(df, hits) ==
    LET kept == SelectSeq([i \in 1..Height(df) |-> i], LAMBDA i : i \in hits)
    IN [k \in 1..Len(kept) |-> df.rows[kept[k]]]

\* DataFrame.head(n)
HeadRows(rows, n) == SubSeq(rows, 1, Min(n, Len(rows)))

V_extract_failed == <<"Failed to extract failing rows">>

\* get_failing_rows(df, condition, max_rows): `needs` are the columns the
\* condition reads, `hits` the rows it selects.  df.filter raises when the
\* frame lacks a column the condition reads; the except branch answers with
\* one error entry.
get_failing_rows(df, needs, hits, max_rows) ==
    IF needs \subseteq Range(df.columns)
    THEN HeadRows(RowsAt(df, hits), max_rows)
    ELSE << [k \in {S_error} |-> V_extract_failed] >>

type_mapping(t) ==
    CASE t = "string" -> "Utf8"
      [] t = "float" -> "Float64"
      [] t = "int" -> "Int64"
      [] t = "date" -> "Date"
      [] t = "datetime" -> "Datetime"
      [] t = "bool" -> "Boolean"
      [] OTHER -> "None"

\* df[col].dtype
Dtype(df, c) == df.dtype[c]

\* loop body of check_column_types; type_mapping.get(key) raises TypeError on
\* a key that is a list, and nothing in the function catches it
check_column_types(df, e) ==
    IF ~HasColumn(df, e.col) THEN Skipped
    ELSE IF e.type_is_list THEN Raised("column_types", <<e.col>>, "TypeError")
    ELSE LET expected_type == type_mapping(e.type)
             actual_type == Dtype(df, e.col)
             type_match ==
                \/ expected_type = "Float64"
                   /\ actual_type \in {"Float64", "Float32", "Int64", "Int32"}
                \/ expected_type = "Utf8" /\ actual_type = "Utf8"
                \/ expected_type = actual_type
         IN Appended(IF type_match THEN Pass("column_types", <<e.col>>)
                     ELSE Fail("column_types", <<e.col>>, 0, <<>>))

\* loop body of check_value_ranges; range_spec.get is outside the try
check_value_ranges(df, e, max_failing_rows) ==
    IF ~HasColumn(df, e.col) THEN Skipped
    ELSE IF ~e.is_mapping THEN Raised("value_ranges", <<e.col>>, "AttributeError")
    ELSE LET hits == {i \in 1..Height(df) :
                        LET x == CastFloat64(df.rows[i][e.col])
                        IN ~x.null /\ (x.n < e.min \/ x.n > e.max)}
             out_of_range_count == Cardinality(hits)
         IN Appended(
              IF out_of_range_count > 0
              THEN Fail("value_ranges", <<e.col>>, out_of_range_count,
                        get_failing_rows(df, {e.col \o S__numeric}, hits,
                                         max_failing_rows))
              ELSE Pass("value_ranges", <<e.col>>))

\* loop body of check_non_negative
check_non_negative(df, e, max_failing_rows) ==
    IF ~HasColumn(df, e.col) THEN Skipped
    ELSE LET hits == {i \in 1..Height(df) :
                        LET x == CastFloat64(df.rows[i][e.col])
                        IN ~x.null /\ x.n < 0}
             negative_count == Cardinality(hits)
         IN Appended(
              IF negative_count > 0
              THEN Fail("non_negative", <<e.col>>, negative_count,
                        get_failing_rows(df, {e.col \o S__numeric}, hits,
                                         max_failing_rows))
              ELSE Pass("non_negative", <<e.col>>))

\* the key of a row under the listed columns
KeyOf(row, columns) == [k \in 1..Len(columns) |-> row[columns[k]]]

\* one entry of duplicates.to_dicts(): the key columns and the group's count
GroupDict(df, columns, i) ==
    LET key == KeyOf(df.rows[i], columns)
        count == Cardinality({j \in 1..Height(df) : KeyOf(df.rows[j], columns) = key})
    IN [c \in Range(columns) \cup {S_count} |->
           IF c = S_count THEN <<DIGITS[count + 1]>> ELSE df.rows[i][c]]

\* loop body of check_duplicates_by: a missing column is reported, not
\* passed over
check_duplicates_by(df, e, max_failing_rows) ==
    LET columns == e.columns
        missing_cols == {c \in Range(columns) : ~HasColumn(df, c)}
        \* the first row of every key that occurs more than once
        firsts == {i \in 1..Height(df) :
                     /\ \A j \in 1..(i - 1) :
                           KeyOf(df.rows[j], columns) # KeyOf(df.rows[i], columns)
                     /\ \E j \in (i + 1)..Height(df) :
                           KeyOf(df.rows[j], columns) = KeyOf(df.rows[i], columns)}
        duplicates ==
            LET kept == SelectSeq([i \in 1..Height(df) |-> i], LAMBDA i : i \in firsts)
            IN [k \in 1..Len(kept) |-> GroupDict(df, columns, kept[k])]
        duplicate_count == Len(duplicates)
    IN IF missing_cols # {}
       THEN Appended(CheckResult("duplicates_by", columns, "error", 0, <<>>,
                                 missing_cols, "Missing columns for duplicate check"))
       ELSE Appended(
              IF duplicate_count > 0
              THEN Fail("duplicates_by", columns, duplicate_count,
                        HeadRows(duplicates, max_failing_rows))
              ELSE Pass("duplicates_by", columns))

\* check_date_within_days for the date rule of the registry; `now` is
\* datetime.now() as a day number
check_date_within_days(df, e, max_failing_rows, now) ==
    IF e.column = <<>> \/ ~HasColumn(df, e.column) THEN Skipped
    ELSE LET cutoff_date == now - e.max_days
             parsed == [i \in 1..Height(df) |-> to_datetime(df.rows[i][e.column])]
             hits == {i \in 1..Height(df) :
                        ~parsed[i].null /\ parsed[i].day < cutoff_date}
             old_dates_count == Cardinality(hits)
         IN Appended(
              IF Dtype(df, e.column) # "Utf8"
              THEN Error("date_within_days", <<>>, "SchemaError")
              ELSE IF \E i \in 1..Height(df) : parsed[i].raises
              THEN Error("date_within_days", <<>>, "ComputeError")
              ELSE IF old_dates_count > 0
              THEN Fail("date_within_days", <<>>, old_dates_count,
                        get_failing_rows(df, {S_date_parsed}, hits, max_failing_rows))
              ELSE Pass("date_within_days", <<>>))

\* check_cash_leq_gross counting the rows with cash >= gross
check_cash_leq_gross_CountsEqual(df, e, max_failing_rows) ==
    IF ~e.enabled THEN Skipped
    ELSE IF ~HasColumn(df, e.cash_column) \/ ~HasColumn(df, e.gross_column) THEN Skipped
    ELSE LET hits == {i \in 1..Height(df) :
                        LET cash == CastFloat64(df.rows[i][e.cash_column])
                            gross == CastFloat64(df.rows[i][e.gross_column])
                        IN ~cash.null /\ ~gross.null /\ cash.n >= gross.n}
             invalid_count == Cardinality(hits)
         IN Appended(
              IF invalid_count > 0
              THEN Fail("cash_leq_gross", <<>>, invalid_count,
                        get_failing_rows(df, {S_cash_numeric, S_gross_numeric}, hits,
                                         max_failing_rows))
              ELSE Pass("cash_leq_gross", <<>>))

\* check_cash_leq_gross for the cash rule of the registry
check_cash_leq_gross(df, e, max_failing_rows) ==
    IF ~e.enabled THEN Skipped
    ELSE IF ~HasColumn(df, e.cash_column) \/ ~HasColumn(df, e.gross_column) THEN Skipped
    ELSE LET hits == {i \in 1..Height(df) :
                        LET cash == CastFloat64(df.rows[i][e.cash_column])
                            gross == CastFloat64(df.rows[i][e.gross_column])
                        IN ~cash.null /\ ~gross.null /\ cash.n > gross.n}
             invalid_count == Cardinality(hits)
         IN Appended(
              IF invalid_count > 0
              THEN Fail("cash_leq_gross", <<>>, invalid_count,
                        get_failing_rows(df, {S_cash_numeric, S_gross_numeric}, hits,
                                         max_failing_rows))
              ELSE Pass("cash_leq_gross", <<>>))

\* loop body of check_enum_values
check_enum_values(df, e, max_failing_rows) ==
    IF ~HasColumn(df, e.col) THEN Skipped
    ELSE LET allowed_set ==
                IF e.case_sensitive THEN e.allowed ELSE {Upper(v) : v \in e.allowed}
             hits == {i \in 1..Height(df) :
                        LET v == df.rows[i][e.col]
                        IN /\ v # NULL
                           /\ (IF e.case_sensitive THEN v ELSE Upper(v)) \notin allowed_set}
             needs == IF e.case_sensitive THEN {e.col} ELSE {e.col, e.col \o S__upper}
             invalid_count == Cardinality(hits)
         IN Appended(
              IF ~e.case_sensitive /\ Dtype(df, e.col) # "Utf8"
              THEN Error("enum_values", <<e.col>>, "SchemaError")
              ELSE IF invalid_count > 0
              THEN Fail("enum_values", <<e.col>>, invalid_count,
                        get_failing_rows(df, needs, hits, max_failing_rows))
              ELSE Pass("enum_values", <<e.col>>))

\* loop body of check_pattern_match
check_pattern_match(df, e, max_failing_rows) ==
    IF ~HasColumn(df, e.col) THEN Skipped
    ELSE LET hits == {i \in 1..Height(df) :
                        LET v == df.rows[i][e.col]
                        IN v # NULL /\ ~FullMatch(e.pattern, v)}
             invalid_count == Cardinality(hits)
         IN Appended(
              IF Dtype(df, e.col) # "Utf8"
              THEN Error("pattern_match", <<e.col>>, "SchemaError")
              ELSE IF ~RegexCompiles(e.pattern)
              THEN Error("pattern_match", <<e.col>>, "ComputeError")
              ELSE IF invalid_count > 0
              THEN Fail("pattern_match", <<e.col>>, invalid_count,
                        get_failing_rows(df, {e.col}, hits, max_failing_rows))
              ELSE Pass("pattern_match", <<e.col>>))

\* check_not_null reporting an absent column as an error
check_not_null_ReportsAbsent(df, e, max_failing_rows) ==
    IF ~HasColumn(df, e.col) THEN Appended(Error("not_null", <<e.col>>, "ColumnNotFoundError"))
    ELSE LET hits == {i \in 1..Height(df) : df.rows[i][e.col] = NULL}
             null_count == Cardinality(hits)
         IN Appended(
              IF null_count > 0
              THEN Fail("not_null", <<e.col>>, null_count,
                        get_failing_rows(df, {e.col}, hits, max_failing_rows))
              ELSE Pass("not_null", <<e.col>>))

\* loop body of check_not_null
check_not_null(df, e, max_failing_rows) ==
    IF ~HasColumn(df, e.col) THEN Skipped
    ELSE LET hits == {i \in 1..Height(df) : df.rows[i][e.col] = NULL}
             null_count == Cardinality(hits)
         IN Appended(
              IF null_count > 0
              THEN Fail("not_null", <<e.col>>, null_count,
                        get_failing_rows(df, {e.col}, hits, max_failing_rows))
              ELSE Pass("not_null", <<e.col>>))

(***************************************************************************)
(* Rule evaluation: run_rules                                              *)
(***************************************************************************)
S_gross_charge == <<"g","r","o","s","s","_","c","h","a","r","g","e">>
S_cash_discount_price ==
    <<"c","a","s","h","_","d","i","s","c","o","u","n","t","_","p","r","i","c","e">>
S_cash_charge == <<"c","a","s","h","_","c","h","a","r","g","e">>
S_drug_information ==
    <<"d","r","u","g","_","i","n","f","o","r","m","a","t","i","o","n">>
S_effective_date == <<"e","f","f","e","c","t","i","v","e","_","d","a","t","e">>
S_last_updated == <<"l","a","s","t","_","u","p","d","a","t","e","d">>

cms_mapping_rules ==
    << [internal |-> S_code, candidates |-> <<S_billing_code, S_code>>],
       [internal |-> S_code_system,
        candidates |-> <<S_billing_code_type, S_code_system>>],
       [internal |-> S_gross_price,
        candidates |-> <<S_standard_charge, S_gross_price, S_gross_charge>>],
       [internal |-> S_cash_price,
        candidates |-> <<S_cash_price, S_cash_discount_price, S_cash_charge>>],
       [internal |-> S_description,
        candidates |-> <<S_description, S_drug_information>>],
       [internal |-> S_date,
        candidates |-> <<S_date, S_effective_date, S_last_updated>>] >>

simple_mapping_rules ==
    << [internal |-> S_code, candidates |-> <<S_code, S_billing_code>>],
       [internal |-> S_code_system,
        candidates |-> <<S_code_system, S_billing_code_type>>],
       [internal |-> S_gross_price,
        candidates |-> <<S_gross_price, S_standard_charge>>],
       [internal |-> S_cash_price, candidates |-> <<S_cash_price>>],
       [internal |-> S_description, candidates |-> <<S_description>>],
       [internal |-> S_date, candidates |-> <<S_date, S_effective_date>>] >>

\* {normalize_header(h): h for h in headers}: the last header wins a key
NormalizedHeaders(headers) ==
    [k \in {normalize_header(headers[i]) : i \in 1..Len(headers)} |->
        headers[CHOOSE i \in 1..Len(headers) :
                   /\ normalize_header(headers[i]) = k
                   /\ \A j \in (i + 1)..Len(headers) : normalize_header(headers[j]) # k]]

\* the mapping rules map_to_internal works with; "none" is profile=None
MappingRulesOf(headers, profile) ==
    LET p == IF profile = "none" THEN detect_profile(headers) ELSE profile
    IN IF p = "cms_csv" THEN cms_mapping_rules ELSE simple_mapping_rules

\* map_to_internal taking the last candidate that is among the headers
map_to_internal_LastCandidate(headers, profile) ==
    LET normalized_headers == NormalizedHeaders(headers)
        mapping_rules == MappingRulesOf(headers, profile)
        Hit(r) == {k \in 1..Len(r.candidates) : r.candidates[k] \in DOMAIN normalized_headers}
        mapped == {j \in 1..Len(mapping_rules) : Hit(mapping_rules[j]) # {}}
    IN [name \in {mapping_rules[j].internal : j \in mapped} |->
           LET r == mapping_rules[CHOOSE j \in mapped : mapping_rules[j].internal = name]
               last == CHOOSE k \in Hit(r) : \A k2 \in Hit(r) : k >= k2
           IN normalized_headers[r.candidates[last]]]

\* app.profiles.map_to_internal: internal name -> actual header, by the first
\* candidate that is among the normalized headers
map_to_internal(headers, profile) ==
    LET normalized_headers == NormalizedHeaders(headers)
        mapping_rules == MappingRulesOf(headers, profile)
        Hit(r) == {k \in 1..Len(r.candidates) : r.candidates[k] \in DOMAIN normalized_headers}
        mapped == {j \in 1..Len(mapping_rules) : Hit(mapping_rules[j]) # {}}
    IN [name \in {mapping_rules[j].internal : j \in mapped} |->
           LET r == mapping_rules[CHOOSE j \in mapped : mapping_rules[j].internal = name]
               first == CHOOSE k \in Hit(r) : \A k2 \in Hit(r) : k <= k2
           IN normalized_headers[r.candidates[first]]]

\* the new name of a column under {v: k for k, v in column_mapping.items()}
Renamed(column_mapping, c) ==
    IF \E k \in DOMAIN column_mapping : column_mapping[k] = c
    THEN CHOOSE k \in DOMAIN column_mapping : column_mapping[k] = c
    ELSE c

\* df.rename(rename_dict); polars raises when two columns get one name
RenameRaises(df, column_mapping) ==
    \E i, j \in 1..Len(df.columns) :
        /\ i # j
        /\ Renamed(column_mapping, df.columns[i]) = Renamed(column_mapping, df.columns[j])

Rename(df, column_mapping) ==
    LET old == [c \in {Renamed(column_mapping, d) : d \in Range(df.columns)} |->
                  CHOOSE d \in Range(df.columns) : Renamed(column_mapping, d) = c]
    IN [readable |-> TRUE,
        columns |-> [i \in 1..Len(df.columns) |-> Renamed(column_mapping, df.columns[i])],
        dtype |-> [c \in DOMAIN old |-> df.dtype[old[c]]],
        rows |-> [i \in 1..Height(df) |-> [c \in DOMAIN old |-> df.rows[i][old[c]]]]]

\* rules.get("profiles", {}).get(profile, {})
ProfileConfig(rules, profile) ==
    IF profile \in DOMAIN rules.profiles THEN rules.profiles[profile]
    ELSE [required_headers |-> <<>>, required_columns |-> <<>>]

\* check_profile_headers
check_profile_headers(actual_cols, profile, rules) ==
    LET profile_config == ProfileConfig(rules, profile)
        actual_headers == {normalize_header(actual_cols[i]) : i \in 1..Len(actual_cols)}
        normalized_required ==
            {normalize_header(h) : h \in Range(profile_config.required_headers)}
        missing_headers == normalized_required \ actual_headers
        missing_columns ==
            {c \in Range(profile_config.required_columns) : c \notin Range(actual_cols)}
    IN IF profile = "cms_csv"
       THEN CheckResult("required_headers", <<>>,
                        IF missing_headers # {} THEN "fail" ELSE "pass",
                        0, <<>>, missing_headers, "")
       ELSE CheckResult("required_columns", <<>>,
                        IF missing_columns # {} THEN "fail" ELSE "pass",
                        0, <<>>, missing_columns, "")

\* the rules of one kind, tagged with the kind
Tagged(rules, kind) ==
    [i \in 1..Len(rules.sections[kind]) |->
        [kind |-> kind, e |-> rules.sections[kind][i]]]

\* the rules of a registry in the order run_rules evaluates them
RECURSIVE RuleListFrom(_, _)
RuleListFrom(rules, k) ==
    IF k > Len(EvalOrder) THEN <<>>
    ELSE Tagged(rules, EvalOrder[k]) \o RuleListFrom(rules, k + 1)

RuleList(rules) == RuleListFrom(rules, 1)

\* the columns a rule reads
ColumnsOf(r) ==
    CASE r.kind = "duplicates_by" -> r.e.columns
      [] r.kind = "date_within_days" -> <<r.e.column>>
      [] r.kind = "cash_leq_gross" -> <<r.e.cash_column, r.e.gross_column>>
      [] OTHER -> <<r.e.col>>

\* the rule name a CheckResult carries, as kind and columns
RuleId(r) ==
    [kind |-> r.kind,
     on |-> CASE r.kind = "duplicates_by" -> r.e.columns
              [] r.kind \in {"date_within_days", "cash_leq_gross"} -> <<>>
              [] OTHER -> <<r.e.col>>]

\* one rule through its check function
EvalRule(df, r, max_failing_rows, now) ==
    CASE r.kind = "column_types" -> check_column_types(df, r.e)
      [] r.kind = "value_ranges" -> check_value_ranges(df, r.e, max_failing_rows)
      [] r.kind = "non_negative" -> check_non_negative(df, r.e, max_failing_rows)
      [] r.kind = "duplicates_by" -> check_duplicates_by(df, r.e, max_failing_rows)
      [] r.kind = "date_within_days" ->
            check_date_within_days(df, r.e, max_failing_rows, now)
      [] r.kind = "cash_leq_gross" -> check_cash_leq_gross(df, r.e, max_failing_rows)
      [] r.kind = "enum_values" -> check_enum_values(df, r.e, max_failing_rows)
      [] r.kind = "pattern_match" -> check_pattern_match(df, r.e, max_failing_rows)
      [] r.kind = "not_null" -> check_not_null(df, r.e, max_failing_rows)

\* all_checks after the first n rules: the CheckResults so far, the rules
\* gone through, and whether an exception has left a check function
RECURSIVE EvalUpTo(_, _, _, _, _)
EvalUpTo(df, list, max_failing_rows, now, n) ==
    IF n = 0
    THEN [raised |-> FALSE, checks |-> <<>>, evaluated |-> <<>>, error |-> ""]
    ELSE LET prev == EvalUpTo(df, list, max_failing_rows, now, n - 1)
             o == EvalRule(df, list[n], max_failing_rows, now)
         IN IF prev.raised THEN prev
            ELSE [raised |-> o.out = "raise",
                  checks |-> IF o.out = "result" THEN Append(prev.checks, o.check)
                             ELSE prev.checks,
                  evaluated |-> Append(prev.evaluated, RuleId(list[n])),
                  error |-> IF o.out = "raise" THEN o.check.error ELSE ""]

CountStatus(checks, status) ==
    Cardinality({i \in 1..Len(checks) : checks[i].status = status})

\* the summary loop without its error branch
Summary_SkipsErrors(checks) ==
    [total_checks |-> Len(checks), passed |-> CountStatus(checks, "pass"),
     failed |-> CountStatus(checks, "fail"), errors |-> 0]

\* the summary loop of run_rules
Summary(checks) ==
    [total_checks |-> Len(checks), passed |-> CountStatus(checks, "pass"),
     failed |-> CountStatus(checks, "fail"), errors |-> CountStatus(checks, "error")]

\* the except branch with the summary of a run without error
FatalReport_NoError(profile, error, evaluated) ==
    [fatal |-> TRUE, propagated |-> FALSE, profile |-> profile,
     detected_profile |-> "unknown", schema_ok |-> FALSE,
     checks |-> <<>>,
     summary |-> [total_checks |-> 0, passed |-> 0, failed |-> 0, errors |-> 0],
     error |-> error, evaluated |-> evaluated]

\* the except branch of run_rules; `evaluated` are the rules gone through
\* before the exception
FatalReport(profile, error, evaluated) ==
    [fatal |-> TRUE, propagated |-> FALSE, profile |-> profile,
     detected_profile |-> "unknown", schema_ok |-> FALSE,
     checks |-> <<>>,
     summary |-> [total_checks |-> 0, passed |-> 0, failed |-> 0, errors |-> 1],
     error |-> error, evaluated |-> evaluated]

\* validate_csv_run's detected_profile: named after the layout when the CSV
\* beside the Parquet file was analysed, detected from the columns otherwise
DetectedProfile(csv, actual_cols) ==
    CASE csv = "tall" -> "cms_csv_tall"
      [] csv = "wide" -> "cms_csv_wide"
      [] OTHER -> detect_profile(actual_cols)

HeaderRuleId(profile) ==
    [kind |-> IF profile = "cms_csv" THEN "required_headers" ELSE "required_columns",
     on |-> <<>>]

\* the profile run_rules works with: the caller's, else the detected one
ProfileOf(dataset, ctx) ==
    IF ctx.hint = "none" THEN DetectedProfile(ctx.csv, dataset.columns) ELSE ctx.hint

\* mapped_df: the dataset under the internal column names when the profile
\* is cms_csv, the dataset itself otherwise
MappedDataset(dataset, ctx) ==
    LET profile == ProfileOf(dataset, ctx)
        column_mapping == map_to_internal(dataset.columns, profile)
    IN IF profile = "cms_csv" /\ DOMAIN column_mapping # {}
       THEN Rename(dataset, column_mapping)
       ELSE dataset

\* rules.get("error_reporting", {}).get("max_failing_rows_per_rule", 5)
MaxFailingRows(registry) ==
    IF registry.error_reporting = <<>> THEN DefaultMaxFailingRows
    ELSE registry.error_reporting[1].max_failing_rows_per_rule

\* schema_ok taken from every check of the run
SchemaOk_AllChecks(header_check, all_checks) ==
    \A i \in 1..Len(all_checks) : all_checks[i].status = "pass"

\* results["schema_ok"] = (header_check.get("status") == "pass")
SchemaOk(header_check, all_checks) == header_check.status = "pass"

\* app.validator.run_rules: every exception of the body ends in the except
\* branch
run_rules(registry, dataset, ctx, now) ==
    LET hinted == IF ctx.hint = "none" THEN "unknown" ELSE ctx.hint
    IN
    IF ~registry.readable THEN FatalReport(hinted, "Failed to load rules registry", <<>>)
    ELSE IF ~dataset.readable THEN FatalReport(hinted, "read_parquet", <<>>)
    ELSE
    LET df == dataset
        actual_cols == df.columns
        detected_profile == DetectedProfile(ctx.csv, actual_cols)
        profile == ProfileOf(dataset, ctx)
        column_mapping == map_to_internal(actual_cols, profile)
        renames == profile = "cms_csv" /\ DOMAIN column_mapping # {}
        mapped_df == MappedDataset(dataset, ctx)
        max_failing_rows == MaxFailingRows(registry)
        header_check == check_profile_headers(actual_cols, profile, registry)
        list == RuleList(registry)
        run == EvalUpTo(mapped_df, list, max_failing_rows, now, Len(list))
        all_checks == <<header_check>> \o run.checks
        evaluated == <<HeaderRuleId(profile)>> \o run.evaluated
    IN IF renames /\ RenameRaises(df, column_mapping)
       THEN FatalReport(profile, "DuplicateError", <<>>)
       ELSE IF run.raised THEN FatalReport(profile, run.error, evaluated)
       ELSE [fatal |-> FALSE, propagated |-> FALSE, profile |-> profile,
             detected_profile |-> detected_profile,
             schema_ok |-> SchemaOk(header_check, all_checks),
             checks |-> all_checks, summary |-> Summary(all_checks),
             error |-> "", evaluated |-> evaluated]

\* headers as files spell them, with synonyms of one field among them
MappingHeaderSet ==
    { S_code, S_billing_code, C_Billing_Code, S_billing_code_type,
      S_standard_charge, C_STANDARD_CHARGE, S_gross_price, S_description }

MappingHeaderLists ==
    UNION { [1..n -> MappingHeaderSet] : n \in 0..MaxMappedHeaders }

InitMapping ==
    /\ profIn \in [a : MappingHeaderLists, b : {<<>>}]
    /\ profOut = NoOut
    /\ SniffIdle
    /\ LayoutIdle
    /\ RulesIdle
    /\ ServiceIdle
    /\ CsvIdle

\* one call of map_to_internal, with a profile or without one
MapToInternal ==
    /\ profOut = NoOut
    /\ \E profile \in {"cms_csv", "simple_csv", "none"} :
          profOut' = [fn |-> "map_to_internal", profile |-> profile,
                      mapping |-> map_to_internal(profIn.a, profile)]
    /\ UNCHANGED profIn
    /\ UNCHANGED notProfileVars

NextMapping == MapToInternal

SpecMapping == InitMapping /\ [][NextMapping]_vars

InitRules ==
    /\ runIn \in [registry : Registries, dataset : Datasets, ctx : RunContexts]
    /\ report = NoOut
    /\ rerun = NoOut
    /\ SniffIdle
    /\ LayoutIdle
    /\ ProfileIdle
    /\ ServiceIdle
    /\ CsvIdle

\* one call of run_rules on the files of the run
RunRules ==
    /\ report = NoOut
    /\ report' = [fn |-> "run_rules",
                  out |-> run_rules(runIn.registry, runIn.dataset, runIn.ctx, Today)]
    /\ UNCHANGED <<runIn, rerun>>
    /\ UNCHANGED notRulesVars

NextRules == RunRules

SpecRules == InitRules /\ [][NextRules]_vars

\* a day after the first run on which run_rules is called again
LaterDay == DaysFromCivil(2030, 3, 1)

\* what datetime.now() may give the second run, as day numbers
Clock == {Today, LaterDay}

\* one request to validate the run: run_rules is called on the files of the
\* run and its report is returned, the first time and whenever the caller
\* asks again; the clock has moved on, or not, by the second request
ValidateRun ==
    /\ rerun = NoOut
    /\ \E now \in (IF report = NoOut THEN {Today} ELSE Clock) :
          \E returned \in { [fn |-> "run_rules", now |-> now,
                             out |-> run_rules(runIn.registry, runIn.dataset,
                                               runIn.ctx, now)] } :
              IF report = NoOut
              THEN report' = returned /\ UNCHANGED rerun
              ELSE rerun' = returned /\ UNCHANGED report
    /\ UNCHANGED runIn
    /\ UNCHANGED notRulesVars

NextRerun == ValidateRun

\* the registries of the runs that are repeated: no rule, a rule that reads
\* the clock, and rules that do not
RerunRegistries ==
    { Registry(s, <<>>) :
        s \in { NoRules, Only("date_within_days", DATE_month),
                Only("duplicates_by", DUP_code_price), Only("not_null", NOTNULL_code) } }

InitRerun ==
    /\ runIn \in [registry : RerunRegistries, dataset : Datasets, ctx : RunContexts]
    /\ report = NoOut
    /\ rerun = NoOut
    /\ SniffIdle
    /\ LayoutIdle
    /\ ProfileIdle
    /\ ServiceIdle
    /\ CsvIdle

SpecRerun == InitRerun /\ [][NextRerun]_vars

\* datasets whose columns hold synonyms of one internal field, beside one
\* that holds none
SynonymColumnLists ==
    { <<S_billing_code, S_code>>, <<S_code, S_billing_code>>,
      <<S_billing_code_type, S_code_system>>, <<S_billing_code, S_standard_charge>> }

SynonymDatasets ==
    UNION { { DataFrame(cols, rows) :
                rows \in UNION { [1..n -> {r \in RowsOver(cols) :
                                              \A c \in Range(cols) : r[c] \in ColumnValues(c, cols)}]
                                 : n \in 0..MaxRows } }
            : cols \in SynonymColumnLists }

InitRename ==
    /\ runIn \in [registry : RerunRegistries, dataset : SynonymDatasets, ctx : RunContexts]
    /\ report = NoOut
    /\ rerun = NoOut
    /\ SniffIdle
    /\ LayoutIdle
    /\ ProfileIdle
    /\ ServiceIdle
    /\ CsvIdle

SpecRename == InitRename /\ [][NextRules]_vars

(***************************************************************************)
(* The runs of the service: validation requests, jobs and publish          *)
(***************************************************************************)
RunIds == {"r1", "r2"}

ZeroSummary == [total_checks |-> 0, passed |-> 0, failed |-> 0, errors |-> 0]

SummaryOf(total, passed, failed, errors) ==
    [total_checks |-> total, passed |-> passed, failed |-> failed, errors |-> errors]

\* a file of a run and what its validation does: run_rules or
\* run_json_schema_validation returns a report with the summary, raises, or
\* is skipped (no registry.yaml beside the application)
NoFile == [exists |-> FALSE, how |-> "none", summary |-> ZeroSummary]
Returns(summary) == [exists |-> TRUE, how |-> "returns", summary |-> summary]
Raises == [exists |-> TRUE, how |-> "raises", summary |-> ZeroSummary]
SkippedFile == [exists |-> TRUE, how |-> "skipped", summary |-> ZeroSummary]

\* the summaries of run_rules: all checks pass, one fails, a fatal report
CsvSummaries == { SummaryOf(2, 2, 0, 0), SummaryOf(2, 1, 1, 0), SummaryOf(0, 0, 0, 1) }

\* the summaries of run_json_schema_validation: valid, invalid, valid against
\* the second schema tried, not JSON
JsonSummaries ==
    { SummaryOf(1, 1, 0, 0), SummaryOf(1, 0, 1, 0), SummaryOf(2, 1, 1, 0),
      SummaryOf(0, 0, 1, 1) }

\* what upload leaves for a run id: nothing for an id it never gave out, a
\* row without files for a document of unknown type, else a row with the
\* Parquet file of a CSV document or with a JSON document
NeverUploaded == [row |-> FALSE, parquet |-> NoFile, json |-> NoFile]
UnknownUpload == [row |-> TRUE, parquet |-> NoFile, json |-> NoFile]
CsvUpload(f) == [row |-> TRUE, parquet |-> f, json |-> NoFile]
JsonUpload(f) == [row |-> TRUE, parquet |-> NoFile, json |-> f]

Uploads ==
    {UnknownUpload}
        \cup {CsvUpload(f) : f \in {Returns(s) : s \in CsvSummaries} \cup {Raises, SkippedFile}}
        \cup {JsonUpload(f) : f \in {Returns(s) : s \in JsonSummaries} \cup {Raises}}

\* the row of a run id the database does not hold
NoRow == [status |-> "none"]

\* the positions of the three requests a run id can get
Idle == [job |-> "idle", sync |-> "idle", publish |-> "idle"]

\* one `if os.path.exists(...)` block of the validation: the summary of the
\* report is added to the combined summary, or one error when the
\* validation raised
AddFile(combined, f) ==
    IF ~f.exists \/ f.how = "skipped" THEN combined
    ELSE IF f.how = "raises"
    THEN [combined EXCEPT !.errors = combined.errors + 1]
    ELSE SummaryOf(combined.total_checks + f.summary.total_checks,
                   combined.passed + f.summary.passed,
                   combined.failed + f.summary.failed,
                   combined.errors + f.summary.errors)

\* validation_results["combined_summary"] after both blocks
CombinedSummary(up) == AddFile(AddFile(ZeroSummary, up.parquet), up.json)

\* the final status with the test on errors left out
FinalStatus_FailedOnly(combined) ==
    IF combined.failed > 0 THEN "failed" ELSE "validated"

\* if combined_summary["failed"] > 0 or combined_summary["errors"] > 0
FinalStatus(combined) ==
    IF combined.failed > 0 \/ combined.errors > 0 THEN "failed" ELSE "validated"

\* not os.path.exists(parquet_path) and not os.path.exists(json_path)
NoFilesFound(up) == ~up.parquet.exists /\ ~up.json.exists

\* the evidence file every run would write
EvidencePath_Shared(run_id) == <<"evidence", "validation">>

\* os.path.join(EV_DIR, f"{run_id}.json")
EvidencePath(run_id) == <<"evidence", run_id>>

\* validation_results as it is dumped (the timestamp left out)
ValidationResults(run_id) ==
    [run_id |-> run_id, combined_summary |-> CombinedSummary(uploaded[run_id])]

\* open(evidence_path, "w"); json.dump(validation_results, f)
WriteEvidence(run_id) ==
    [p \in (DOMAIN evidence) \cup {EvidencePath(run_id)} |->
        IF p = EvidencePath(run_id) THEN ValidationResults(run_id) ELSE evidence[p]]

\* update_run_status: the row's status is set when the row exists
update_run_status(run_id, status) ==
    IF runs[run_id] = NoRow THEN runs
    ELSE [runs EXCEPT ![run_id] = [status |-> status]]

At(r, req, where) == pc[r][req] = where
Goto(r, req, where) == pc' = [pc EXCEPT ![r][req] = where]

\* run_validation up to its first commit: the run is looked up and set to
\* RUNNING; an id without row raises into the except block
JobStart(r) ==
    /\ At(r, "job", "idle")
    /\ IF runs[r] = NoRow
       THEN /\ Goto(r, "job", "failing")
            /\ UNCHANGED runs
       ELSE /\ runs' = [runs EXCEPT ![r] = [status |-> "running"]]
            /\ Goto(r, "job", "running")
    /\ UNCHANGED <<uploaded, evidence>>
    /\ UNCHANGED notServiceVars

\* run_validation from the validation of the files to its second commit:
\* no file raises into the except block
JobCommit(r) ==
    /\ At(r, "job", "running")
    /\ IF NoFilesFound(uploaded[r])
       THEN /\ Goto(r, "job", "failing")
            /\ UNCHANGED runs
       ELSE /\ runs' = [runs EXCEPT ![r] =
                           [status |-> FinalStatus(CombinedSummary(uploaded[r]))]]
            /\ Goto(r, "job", "committed")
    /\ UNCHANGED <<uploaded, evidence>>
    /\ UNCHANGED notServiceVars

\* run_validation writing the evidence file: it returns, or the write raises
\* into the except block
JobEvidence(r) ==
    /\ At(r, "job", "committed")
    /\ \/ /\ evidence' = WriteEvidence(r)
          /\ Goto(r, "job", "returned")
       \/ /\ Goto(r, "job", "failing")
          /\ UNCHANGED evidence
    /\ UNCHANGED <<runs, uploaded>>
    /\ UNCHANGED notServiceVars

\* the except block that leaves the status as it is
JobFail_KeepsStatus(r) ==
    /\ At(r, "job", "failing")
    /\ Goto(r, "job", "raised")
    /\ UNCHANGED <<runs, uploaded, evidence>>
    /\ UNCHANGED notServiceVars

\* the except block of run_validation: the run is set to FAILED in a new
\* session and the exception is raised again
JobFail(r) ==
    /\ At(r, "job", "failing")
    /\ runs' = update_run_status(r, "failed")
    /\ Goto(r, "job", "raised")
    /\ UNCHANGED <<uploaded, evidence>>
    /\ UNCHANGED notServiceVars

\* validate_sync up to update_run_status: 404 when the run id has no file
SyncValidate(r) ==
    /\ At(r, "sync", "idle")
    /\ IF NoFilesFound(uploaded[r])
       THEN /\ Goto(r, "sync", "done")
            /\ UNCHANGED runs
       ELSE /\ runs' = update_run_status(r, FinalStatus(CombinedSummary(uploaded[r])))
            /\ Goto(r, "sync", "committed")
    /\ UNCHANGED <<uploaded, evidence>>
    /\ UNCHANGED notServiceVars

\* validate_sync writing the evidence file; a failing write ends the request
SyncEvidence(r) ==
    /\ At(r, "sync", "committed")
    /\ \/ evidence' = WriteEvidence(r)
       \/ UNCHANGED evidence
    /\ Goto(r, "sync", "done")
    /\ UNCHANGED <<runs, uploaded>>
    /\ UNCHANGED notServiceVars

\* publish: update_run_status(session, run_id, RunStatus.PUBLISHED)
Publish(r) ==
    /\ At(r, "publish", "idle")
    /\ runs' = update_run_status(r, "published")
    /\ Goto(r, "publish", "done")
    /\ UNCHANGED <<uploaded, evidence>>
    /\ UNCHANGED notServiceVars

NextService ==
    \E r \in RunIds :
        \/ JobStart(r)
        \/ JobCommit(r)
        \/ JobEvidence(r)
        \/ JobFail(r)
        \/ SyncValidate(r)
        \/ SyncEvidence(r)
        \/ Publish(r)

\* the rows create_run left: status UPLOADED for every uploaded document
RowsOf(ups) == [r \in RunIds |-> IF ups[r].row THEN [status |-> "uploaded"] ELSE NoRow]

InitWith(ups) ==
    /\ uploaded = ups
    /\ runs = RowsOf(ups)
    /\ evidence = <<>>
    /\ pc = [r \in RunIds |-> Idle]
    /\ SniffIdle
    /\ LayoutIdle
    /\ ProfileIdle
    /\ RulesIdle
    /\ CsvIdle

\* one uploaded document; the other run id was never given out
InitService ==
    \E up \in Uploads : InitWith([r \in RunIds |-> IF r = "r1" THEN up ELSE NeverUploaded])

SpecService == InitService /\ [][NextService]_vars

\* the worker runs a job it has started to its end
JobFairness ==
    \A r \in RunIds :
        /\ WF_vars(JobCommit(r))
        /\ WF_vars(JobEvidence(r))
        /\ WF_vars(JobFail(r))

SpecServiceFair == InitService /\ [][NextService]_vars /\ JobFairness

\* two uploaded documents
ParallelUploads ==
    { UnknownUpload, CsvUpload(Returns(SummaryOf(2, 2, 0, 0))),
      JsonUpload(Returns(SummaryOf(1, 0, 1, 0))) }

InitParallel == \E ups \in [RunIds -> ParallelUploads] : InitWith(ups)

SpecParallel == InitParallel /\ [][NextService]_vars

(***************************************************************************)
(* validate_csv: the findings of a file and its ok flag                    *)
(***************************************************************************)
S_hospital_name == <<"h","o","s","p","i","t","a","l"," ","n","a","m","e">>
S_code_type == <<"c","o","d","e","_","t","y","p","e">>
S_billing_accounting_code ==
    <<"b","i","l","l","i","n","g","_","a","c","c","o","u","n","t","i","n","g","_","c","o","d","e">>
S_standard_charge_percentage ==
    <<"s","t","a","n","d","a","r","d","_","c","h","a","r","g","e","_","p","e","r","c","e","n","t","a","g","e">>
S_standard_charge_algorithm ==
    <<"s","t","a","n","d","a","r","d","_","c","h","a","r","g","e","_","a","l","g","o","r","i","t","h","m">>
S_estimated_allowed_amount ==
    <<"e","s","t","i","m","a","t","e","d","_","a","l","l","o","w","e","d","_","a","m","o","u","n","t">>
S_drug_unit_of_measurement ==
    <<"d","r","u","g","_","u","n","i","t","_","o","f","_","m","e","a","s","u","r","e","m","e","n","t">>
S_drug_type_of_measurement ==
    <<"d","r","u","g","_","t","y","p","e","_","o","f","_","m","e","a","s","u","r","e","m","e","n","t">>
S_aetna_silver_hmo ==
    <<"a","e","t","n","a","|","s","i","l","v","e","r"," ","h","m","o">>
S_cigna_gold_ppo ==
    <<"c","i","g","n","a","|","g","o","l","d"," ","p","p","o">>
C_50 == <<"5","0">>

MaxCsvRows == 1
MaxFindingsPerRule == 50

\* the cells of a data row: filled, empty (NaN, filled with ""), blanks
CellFilled == C_50
CellEmpty == <<>>
CellSpace == <<" ">>

\* the header rows of the files
TallCodedHeaders == <<S_billing_code_type, S_billing_code, S_description>>
TallPercentHeaders ==
    <<S_billing_code_type, S_billing_code, S_standard_charge_percentage,
      S_estimated_allowed_amount>>
TallDrugHeaders == <<C_Description, S_drug_unit_of_measurement, S_drug_type_of_measurement>>
WideHeaders ==
    <<S_billing_code_type, S_billing_code, S_aetna_silver_hmo, S_cigna_gold_ppo>>

CsvHeaderLists == {TallCodedHeaders, TallPercentHeaders, TallDrugHeaders, WideHeaders}

\* the data rows under a header row of n columns: all cells filled, one cell
\* empty, or the first cell blanks
CsvRowsOf(n) ==
    { [i \in 1..n |-> IF i = k THEN CellEmpty ELSE CellFilled] : k \in 0..n }
        \cup { [i \in 1..n |-> IF i = 1 THEN CellSpace ELSE CellFilled] }

CsvFrames ==
    UNION { [columns : {h}, rows : UNION {[1..m -> CsvRowsOf(Len(h))] : m \in 0..MaxCsvRows}]
            : h \in CsvHeaderLists }

\* the keys of the preamble the sniffer found, and with them the header row
NoPreamble == {}
CmsPreamble == {S_mrf_date, S_cms_template_version}
HospitalPreamble == {S_hospital_name}
Preambles == {NoPreamble, CmsPreamble, HospitalPreamble}

\* a file as validate_csv sees it: whether its first 1000 characters decode
\* as strict UTF-8, whether pd.read_csv parses it, the preamble keys, and the
\* frame read from the header row on; a file that does not decode does not
\* parse either
CsvFiles ==
    { f \in [utf8 : BOOLEAN, parses : BOOLEAN, preamble : Preambles, df : CsvFrames] :
        ~f.utf8 => ~f.parses }

HeaderRowOf(f) == IF f.preamble = NoPreamble THEN 0 ELSE 2

\* TALL["rules"] / WIDE["rules"] of the layout's YAML resource
AllRules ==
    [require_description |-> TRUE, require_coding |-> TRUE,
     require_estimated_when_percent_or_algorithm |-> TRUE,
     pair_drug_unit_and_type |-> TRUE]

RuleSettings ==
    { AllRules,
      [AllRules EXCEPT !.require_description = FALSE],
      [AllRules EXCEPT !.require_coding = FALSE],
      [AllRules EXCEPT !.require_estimated_when_percent_or_algorithm = FALSE],
      [AllRules EXCEPT !.pair_drug_unit_and_type = FALSE] }

\* spec["flexible_mappings"]: none, or "code" as a variation of billing_code
NoMappings == <<>>
CodeMapping == << [field |-> S_billing_code, variations |-> <<S_code>>] >>

\* the required fields and headers of the YAML resources
CodingRequiredFields == <<S_billing_code_type, S_billing_code>>
ChargesRequiredFields == <<S_standard_charge>>
ItemRequiredFields == <<S_description>>
RequiredHeaders == <<S_billing_code_type, S_billing_code>>
MrfRequiredLabels == <<S_mrf_date, S_cms_template_version>>
HospitalRequiredLabels == <<S_hospital_name>>

CsvSpecs == [rules : RuleSettings, flexible_mappings : {NoMappings, CodeMapping}]

Finding(severity, rule, row) == [severity |-> severity, rule |-> rule, row |-> row]

\* ValidationResult(ok=True, ...) with no finding yet
NewResult == [how |-> "returns", ok |-> TRUE, findings |-> <<>>]

\* res.findings.append(...)
AddFinding(res, finding) == [res EXCEPT !.findings = Append(@, finding)]

\* res.ok = False; res.findings.append(...)
NotOkWith(res, finding) == [res EXCEPT !.ok = FALSE, !.findings = Append(@, finding)]

\* the standard field of one header: that of the first mapping with a
\* variation that contains the header or is contained in it
MappedHeader(header, mappings) ==
    LET hits == {k \in 1..Len(mappings) :
                    \E v \in Range(mappings[k].variations) :
                        \/ Contains(Lower(v), Lower(header))
                        \/ Contains(Lower(header), Lower(v))}
    IN IF hits = {} THEN header ELSE mappings[Smallest(hits)].field

\* _map_headers_to_standard: list(set(mapped)), here the set
map_headers_to_standard(headers, mappings) ==
    { MappedHeader(headers[i], mappings) : i \in 1..Len(headers) }

\* the lists list(set(mapped)) can be: the set in any order
ListsOfSet(S) ==
    { s \in [1..Cardinality(S) -> S] : \A i, j \in 1..Cardinality(S) : s[i] = s[j] => i = j }

\* the required fields neither among the mapped headers nor matched by one
\* of their flexible mappings
MissingFields(required, headers, mappings) ==
    SelectSeq(required,
        LAMBDA field :
            /\ field \notin map_headers_to_standard(headers, mappings)
            /\ ~\E k \in 1..Len(mappings) :
                    /\ mappings[k].field = field
                    /\ \E v \in Range(mappings[k].variations) :
                           \E i \in 1..Len(headers) : Contains(Lower(v), Lower(headers[i])))

\* any(label.lower() in key.lower() for key in preamble.keys()) for a label
FoundLabels(labels, preamble) ==
    SelectSeq(labels, LAMBDA label : \E key \in preamble : Contains(Lower(label), Lower(key)))

validate_mrf_info(preamble, res) ==
    IF FoundLabels(MrfRequiredLabels, preamble) = <<>>
    THEN AddFinding(res, Finding("warning", "csv.mrf_info.missing", 1))
    ELSE res

validate_hospital_info(preamble, res) ==
    IF FoundLabels(HospitalRequiredLabels, preamble) = <<>>
    THEN AddFinding(res, Finding("warning", "csv.hospital_info.missing", 1))
    ELSE AddFinding(res, Finding("info", "csv.hospital_info.present", 1))

validate_standard_charges(headers, mappings, res) ==
    IF MissingFields(ChargesRequiredFields, headers, mappings) # <<>>
    THEN AddFinding(res, Finding("warning", "csv.standard_charges.missing", 1))
    ELSE AddFinding(res, Finding("info", "csv.standard_charges.complete", 1))

validate_item_service_info(headers, mappings, res) ==
    IF MissingFields(ItemRequiredFields, headers, mappings) # <<>>
    THEN AddFinding(res, Finding("warning", "csv.item_service_info.missing", 1))
    ELSE res

validate_coding_info(headers, mappings, res) ==
    IF MissingFields(CodingRequiredFields, headers, mappings) # <<>>
    THEN NotOkWith(res, Finding("error", "csv.coding_info.missing", 1))
    ELSE AddFinding(res, Finding("info", "csv.coding_info.complete", 1))

\* the k-th smallest element of a set of row indexes
KthOf(S, k) == CHOOSE x \in S : Cardinality({y \in S : y < x}) = k - 1

\* for i in df[bad].index[:50]: one finding for each of the first 50 bad
\* rows, with line_no(i) as its row
RowFindings(bad, severity, rule, hdr_idx) ==
    [k \in 1..Min(Cardinality(bad), MaxFindingsPerRule) |->
        Finding(severity, rule, hdr_idx + 1 + KthOf(bad, k))]

\* res.ok = False; res.findings.append(...) in the body of such a loop
NotOkWithEach(res, findings) ==
    IF findings = <<>> THEN res
    ELSE [res EXCEPT !.ok = FALSE, !.findings = @ \o findings]

HasCsvColumn(df, name) == \E i \in 1..Len(df.columns) : df.columns[i] = name

CsvCell(df, r, name) ==
    df.rows[r][CHOOSE i \in 1..Len(df.columns) : df.columns[i] = name]

\* df[name].str.strip() == ""
BlankIn(df, r, name) == Strip(CsvCell(df, r, name)) = <<>>

\* the rule on description, the same in both modules
DescriptionRule(df, rules, hdr_idx, res) ==
    IF rules.require_description /\ HasCsvColumn(df, S_description)
    THEN NotOkWithEach(res,
            RowFindings({r \in 1..Len(df.rows) : BlankIn(df, r, S_description)},
                        "error", "csv.description.present", hdr_idx))
    ELSE res

\* the rule on the estimated allowed amount of the tall layout, the same in
\* both modules
EstimatedRule(df, layout, rules, hdr_idx, res) ==
    IF /\ layout = "csv_tall"
       /\ rules.require_estimated_when_percent_or_algorithm
       /\ HasCsvColumn(df, S_standard_charge_percentage)
             \/ HasCsvColumn(df, S_standard_charge_algorithm)
       /\ HasCsvColumn(df, S_estimated_allowed_amount)
    THEN NotOkWithEach(res,
            RowFindings(
                {r \in 1..Len(df.rows) :
                    /\ \/ /\ HasCsvColumn(df, S_standard_charge_percentage)
                          /\ ~BlankIn(df, r, S_standard_charge_percentage)
                       \/ /\ HasCsvColumn(df, S_standard_charge_algorithm)
                          /\ ~BlankIn(df, r, S_standard_charge_algorithm)
                    /\ BlankIn(df, r, S_estimated_allowed_amount)},
                "warning", "csv.estimated_amount.required", hdr_idx))
    ELSE res

\* the rule on the drug unit and type of the tall layout, the same in both
\* modules
DrugPairRule(df, layout, rules, hdr_idx, res) ==
    IF /\ layout = "csv_tall"
       /\ rules.pair_drug_unit_and_type
       /\ HasCsvColumn(df, S_drug_unit_of_measurement)
       /\ HasCsvColumn(df, S_drug_type_of_measurement)
    THEN NotOkWithEach(res,
            RowFindings(
                {r \in 1..Len(df.rows) :
                    BlankIn(df, r, S_drug_unit_of_measurement)
                        # BlankIn(df, r, S_drug_type_of_measurement)},
                "error", "csv.drug.fields.pair", hdr_idx))
    ELSE res

\* the rule on coding of clearcare_compliance.csv_validator: the i-th column
\* is judged by the i-th entry of the mapped list
CodingRule(df, rules, mapped_headers, hdr_idx, res) ==
    LET mapped(i) == IF i <= Len(mapped_headers) THEN mapped_headers[i]
                     ELSE Lower(df.columns[i])
        type_cols == {i \in 1..Len(df.columns) :
                         mapped(i) \in {S_billing_code_type, S_code_type}}
        code_cols == {i \in 1..Len(df.columns) :
                         /\ i \notin type_cols
                         /\ mapped(i) \in {S_billing_code, S_billing_accounting_code}}
    IN IF ~rules.require_coding THEN res
       ELSE IF type_cols = {} \/ code_cols = {}
       THEN NotOkWith(res, Finding("error", "csv.coding.present", hdr_idx + 1))
       ELSE NotOkWithEach(res,
               RowFindings(
                   {r \in 1..Len(df.rows) :
                       \/ Strip(df.rows[r][Largest(type_cols)]) = <<>>
                       \/ Strip(df.rows[r][Largest(code_cols)]) = <<>>},
                   "error", "csv.coding.present", hdr_idx))

\* clearcare_compliance.csv_validator.validate_csv on a file, with the YAML
\* resource of its layout and the order list(set(...)) gave the mapped
\* headers
validate_csv(f, spec, mapped_headers) ==
    LET headers_lower == HeadersLower(f.df.columns)
        layout == guess_csv_layout(headers_lower, 0)
        hdr_idx == HeaderRowOf(f)
        encoded == IF f.utf8 THEN NewResult
                   ELSE NotOkWith(NewResult, Finding("error", "csv.encoding", 1))
        headed ==
            validate_coding_info(headers_lower, spec.flexible_mappings,
              validate_item_service_info(headers_lower, spec.flexible_mappings,
                validate_standard_charges(headers_lower, spec.flexible_mappings,
                  validate_hospital_info(f.preamble,
                    validate_mrf_info(f.preamble, encoded)))))
    IN IF ~f.parses
       THEN NotOkWith(headed, Finding("error", "csv.parsing", hdr_idx + 1))
       ELSE DrugPairRule(f.df, layout, spec.rules, hdr_idx,
              EstimatedRule(f.df, layout, spec.rules, hdr_idx,
                CodingRule(f.df, spec.rules, mapped_headers, hdr_idx,
                  DescriptionRule(f.df, spec.rules, hdr_idx, headed))))

\* the rule on coding of the module csv_validator at the top of the tree
TopCodingRule(df, rules, hdr_idx, res) ==
    IF ~rules.require_coding THEN res
    ELSE IF ~(HasCsvColumn(df, S_billing_code_type) /\ HasCsvColumn(df, S_billing_code))
    THEN NotOkWith(res, Finding("error", "csv.coding.present", hdr_idx + 1))
    ELSE NotOkWithEach(res,
            RowFindings(
                {r \in 1..Len(df.rows) :
                    BlankIn(df, r, S_billing_code_type) \/ BlankIn(df, r, S_billing_code)},
                "error", "csv.coding.present", hdr_idx))

\* csv_validator.validate_csv (the module at the top of the tree): it raises
\* when pd.read_csv does
top_validate_csv(f, spec) ==
    LET headers_lower == HeadersLower(f.df.columns)
        layout == guess_csv_layout(headers_lower, 0)
        hdr_idx == HeaderRowOf(f)
        encoded == IF f.utf8 THEN NewResult
                   ELSE NotOkWith(NewResult, Finding("error", "csv.encoding", 1))
        labelled ==
            IF {S_mrf_date, S_cms_template_version} \subseteq f.preamble THEN encoded
            ELSE NotOkWith(encoded, Finding("warning", "csv.preamble.required_labels", 1))
        required ==
            IF \A i \in 1..Len(RequiredHeaders) : RequiredHeaders[i] \in Range(headers_lower)
            THEN labelled
            ELSE NotOkWith(labelled, Finding("error", "csv.headers.required", hdr_idx + 1))
        headed ==
            IF layout = "csv_tall"
                  \/ \E i \in 1..Len(headers_lower) : Contains(S_pipe, headers_lower[i])
            THEN required
            ELSE NotOkWith(required, Finding("error", "csv.headers.payer_plan", hdr_idx + 1))
    IN IF ~f.parses THEN [how |-> "raises"]
       ELSE DrugPairRule(f.df, layout, spec.rules, hdr_idx,
              EstimatedRule(f.df, layout, spec.rules, hdr_idx,
                TopCodingRule(f.df, spec.rules, hdr_idx,
                  DescriptionRule(f.df, spec.rules, hdr_idx, headed))))

CsvOut(fn, res) == [fn |-> fn, res |-> res]

\* main of the command line calls validate_csv on the file
ValidateCsv ==
    /\ result = NoOut
    /\ \E mapped_headers \in
            ListsOfSet(map_headers_to_standard(
                [i \in 1..Len(csvFile.file.df.columns) |-> Lower(csvFile.file.df.columns[i])],
                csvFile.spec.flexible_mappings)) :
          result' = CsvOut("validate_csv",
                           validate_csv(csvFile.file, csvFile.spec, mapped_headers))
    /\ UNCHANGED csvFile
    /\ UNCHANGED notCsvVars

TopValidateCsv ==
    /\ result = NoOut
    /\ result' = CsvOut("csv_validator.validate_csv",
                        top_validate_csv(csvFile.file, csvFile.spec))
    /\ UNCHANGED csvFile
    /\ UNCHANGED notCsvVars

NextCsv == ValidateCsv \/ TopValidateCsv

InitCsv ==
    /\ csvFile \in [file : CsvFiles, spec : CsvSpecs]
    /\ result = NoOut
    /\ SniffIdle
    /\ LayoutIdle
    /\ ProfileIdle
    /\ RulesIdle
    /\ ServiceIdle

SpecCsv == InitCsv /\ [][NextCsv]_vars

(***************************************************************************)
(* Properties of the sniffers                                              *)
(***************************************************************************)
Sniffed == sniffOut.fn # "none"

PreambleSniffed == sniffOut.fn \in {"find_preamble_and_header_row", "_try_parse_preamble"}

\* the line list the sniffer that ran has scanned
LinesScanned ==
    IF sniffOut.fn = "find_preamble_and_header_row"
    THEN SelectSeq(text, HasText)
    ELSE text

\* the rows of the text that are not blank
NonEmptyRows == SelectSeq(text, HasText)

RecognizedLabels(ln) ==
    {k \in wanted : \E i \in 1..Len(ln.cells) : Lower(Strip(ln.cells[i])) = k}

\* the first three non-empty rows are a label row, a value row and a header
\* row: all three parse and have a non-empty cell, label and value row have
\* as many cells, and the label row holds at least 2 recognized labels
LabelValueHeaderFirst ==
    /\ Len(NonEmptyRows) >= 3
    /\ \A n \in 1..3 : ~NonEmptyRows[n].bad /\ AnyCell(NonEmptyRows[n])
    /\ Len(NonEmptyRows[1].cells) = Len(NonEmptyRows[2].cells)
    /\ Cardinality(RecognizedLabels(NonEmptyRows[1])) >= 2

\* the 0-based index, in the line list the sniffer scanned, of the n-th
\* non-empty row of the text
IndexOfRow(n) ==
    IF sniffOut.fn = "find_preamble_and_header_row" THEN n - 1
    ELSE (CHOOSE p \in 1..Len(text) :
            /\ HasText(text[p])
            /\ Cardinality({q \in 1..p : HasText(text[q])}) = n) - 1

\* C1: when the first three non-empty rows are label row, value row and
\* header row with equal cell counts and at least 2 recognized labels, either
\* preamble sniffer returns the third of them as the header row: index 2
\* among the non-empty rows (the label row lying inside the scan window).
C1_HeaderRowIsThirdRow ==
    (PreambleSniffed /\ LabelValueHeaderFirst /\ IndexOfRow(1) < sniffOut.max_scan) =>
        (~sniffOut.res.raised /\ sniffOut.res.idx = IndexOfRow(3))

\* the same statement for find_preamble_and_header_row alone, which drops
\* blank lines before it scans
C1_PackageSnifferOnly ==
    (sniffOut.fn = "find_preamble_and_header_row" /\ LabelValueHeaderFirst) =>
        (~sniffOut.res.raised /\ sniffOut.res.idx = 2)

\* no candidate index of the scan satisfies either heuristic
NoCandidateAccepts ==
    \A i \in ScanRange(LinesScanned, sniffOut.max_scan) :
        ~DomainPreambleAt(LinesScanned, i) /\ ~GenericMetadataAt(LinesScanned, i)

\* C2 (as claimed): when no candidate position satisfies a heuristic, what
\* the preamble sniffer returns is header row index 0 and an empty preamble.
C2_FallbackIsZero ==
    (PreambleSniffed /\ NoCandidateAccepts /\ ~sniffOut.res.raised) =>
        (sniffOut.res.idx = 0 /\ sniffOut.res.preamble = <<>>)

\* the 0-based indices of the scanned lines that have a non-empty cell
CellLines == {j \in 0..(Len(LinesScanned) - 1) : AnyCell(LinesScanned[j + 1])}

\* the 0-based indices of the scanned lines the csv reader rejects
BadLines == {j \in 0..(Len(LinesScanned) - 1) : LinesScanned[j + 1].bad}

\* C2 (amended): when no candidate position satisfies a heuristic the
\* preamble sniffer returns an empty preamble and the index of the first
\* scanned line that has a non-empty cell, 0 when there is no such line; it
\* raises exactly when a rejected line comes before every such line.
C2_FallbackIsFirstRowWithCell ==
    (PreambleSniffed /\ NoCandidateAccepts) =>
        /\ sniffOut.res.raised <=>
              \E b \in BadLines : \A j \in CellLines : b < j
        /\ ~sniffOut.res.raised =>
              /\ sniffOut.res.preamble = <<>>
              /\ IF CellLines = {} THEN sniffOut.res.idx = 0
                 ELSE /\ sniffOut.res.idx \in CellLines
                      /\ \A j \in CellLines : sniffOut.res.idx <= j

\* C2 witness: the fallback has returned a header row that is not row 0
C2_Witness ==
    /\ PreambleSniffed /\ NoCandidateAccepts
    /\ ~sniffOut.res.raised
    /\ sniffOut.res.idx = 1
    /\ sniffOut.res.preamble = <<>>

\* C3 (as claimed): for every input text, empty text included, the returned
\* header row index satisfies 0 <= idx < number of lines scanned.
C3_IndexWithinLines ==
    (Sniffed /\ ~sniffOut.res.raised) =>
        (0 <= sniffOut.res.idx /\ sniffOut.res.idx < Len(LinesScanned))

\* C3 (amended): the returned header row index is 0 when no line was scanned
\* and satisfies 0 <= idx < number of lines scanned otherwise.
C3_IndexWithinLinesOrZero ==
    (Sniffed /\ ~sniffOut.res.raised) =>
        IF Len(LinesScanned) = 0
        THEN sniffOut.res.idx = 0
        ELSE 0 <= sniffOut.res.idx /\ sniffOut.res.idx < Len(LinesScanned)

\* C3 witness: a sniffer has returned the last line of a text of several lines
C3_Witness ==
    /\ Sniffed /\ ~sniffOut.res.raised
    /\ Len(LinesScanned) >= 3
    /\ sniffOut.res.idx = Len(LinesScanned) - 1

(***************************************************************************)
(* Properties of the layout classifier                                     *)
(***************************************************************************)
\* the headers, as classified, that hold the pipe with a payer/plan word
PipeTokenHeaders ==
    {i \in 1..Len(hdrInput.hdrs) :
        LET h == Lower(Strip(hdrInput.hdrs[i]))
        IN /\ \E k \in 1..Len(h) : h[k] = "|"
           /\ \E word \in payer_plan_words : Contains(word, h)}

SameCharUpTo(c, d) ==
    \/ LowerChar(c) = LowerChar(d)
    \/ {c, d} \subseteq {" ", "-", "_"}

\* two headers that differ only in case, surrounding white space, or space
\* and hyphen versus underscore
SameHeaderUpTo(g, h) ==
    LET gs == Strip(g)
        hs == Strip(h)
    IN /\ Len(gs) = Len(hs)
       /\ \A i \in 1..Len(gs) : SameCharUpTo(gs[i], hs[i])

\* the indicator names that occur among the headers up to such differences
IndicatorsAmong(headers) ==
    {ind \in cms_indicators :
        \E i \in 1..Len(headers) : SameHeaderUpTo(headers[i], ind)}

\* C5: detect_profile returns cms_csv exactly when at least 2 distinct
\* indicator names occur among the normalized headers, simple_csv otherwise,
\* and gives the same result for two header lists that differ only in case,
\* surrounding white space, or space/hyphen versus underscore.
C5_ProfileByIndicators ==
    profOut.fn = "detect_profile" =>
        /\ profOut.a \in {"cms_csv", "simple_csv"}
        /\ profOut.a = "cms_csv" <=> Cardinality(IndicatorsAmong(profIn.a)) >= 2
        /\ ( /\ Len(profIn.a) = Len(profIn.b)
             /\ \A i \in 1..Len(profIn.a) : SameHeaderUpTo(profIn.a[i], profIn.b[i]) )
           => profOut.a = profOut.b

\* C5 witness: two differently spelled header lists with two indicators each
\* were both detected as cms_csv
C5_Witness ==
    /\ profOut.fn = "detect_profile"
    /\ Len(profIn.a) = 2 /\ Len(profIn.b) = 2
    /\ profIn.a[1] # profIn.b[1] /\ profIn.a[2] # profIn.b[2]
    /\ \A i \in 1..2 : SameHeaderUpTo(profIn.a[i], profIn.b[i])
    /\ profOut.a = "cms_csv" /\ profOut.b = "cms_csv"

(***************************************************************************)
(* Properties of rule evaluation                                           *)
(***************************************************************************)
RunDone == report.fn = "run_rules"

\* both files of the run could be loaded
Loaded == runIn.registry.readable /\ runIn.dataset.readable

\* the dataset as the rules see it
SeenDataset == MappedDataset(runIn.dataset, runIn.ctx)

\* the rules of the run, in evaluation order
RunList == RuleList(runIn.registry)

\* rule n of the run reads a column the dataset does not have
ReadsAbsentColumn(n) ==
    \E c \in Range(ColumnsOf(RunList[n])) : ~HasColumn(SeenDataset, c)

\* the registry of the run without entry i of one kind
RegistryWithout(kind, i) ==
    [runIn.registry EXCEPT
        !.sections[kind] = SubSeq(@, 1, i - 1) \o SubSeq(@, i + 1, Len(@))]

\* entry i of one kind reads a column the dataset does not have
EntryReadsAbsentColumn(kind, i) ==
    \E c \in Range(ColumnsOf([kind |-> kind, e |-> runIn.registry.sections[kind][i]])) :
        ~HasColumn(SeenDataset, c)

\* the report has the checks and the summary of the run without the entry
SameAsWithout(kind, i) ==
    LET other == run_rules(RegistryWithout(kind, i), runIn.dataset, runIn.ctx, Today)
    IN /\ report.out.checks = other.checks
       /\ report.out.summary = other.summary

\* C6 (as claimed): for every rule kind, a rule that references a column
\* absent from the dataset adds no CheckResult to the report and leaves the
\* summary counters unchanged.
C6_AbsentColumnAddsNothing ==
    (RunDone /\ Loaded) =>
        \A k \in 1..Len(EvalOrder) :
            \A i \in 1..Len(runIn.registry.sections[EvalOrder[k]]) :
                EntryReadsAbsentColumn(EvalOrder[k], i) =>
                    SameAsWithout(EvalOrder[k], i)

\* C6 (amended): for every rule kind but duplicates_by, a rule that
\* references a column absent from the dataset adds no CheckResult to the
\* report and leaves the summary counters unchanged.
C6_AbsentColumnAddsNothingButDuplicates ==
    (RunDone /\ Loaded) =>
        \A k \in 1..Len(EvalOrder) :
            \A i \in 1..Len(runIn.registry.sections[EvalOrder[k]]) :
                (EvalOrder[k] # "duplicates_by" /\ EntryReadsAbsentColumn(EvalOrder[k], i))
                    => SameAsWithout(EvalOrder[k], i)

\* C6 witness: a run that went past a date rule and a not_null rule on
\* absent columns and reported a not_null rule on a present one
C6_Witness ==
    /\ RunDone /\ Loaded
    /\ ~report.out.fatal
    /\ runIn.registry.sections["date_within_days"] # <<>>
    /\ ~HasColumn(SeenDataset, S_date)
    /\ HasColumn(SeenDataset, S_code)
    /\ \E j \in 1..Len(report.out.checks) :
          report.out.checks[j].rule = [kind |-> "not_null", on |-> <<S_code>>]
    /\ report.out.summary.total_checks = 2

\* evaluating rule n of the run raises an exception: a column_types entry
\* whose type is a list, a value_ranges entry that is no mapping, a date
\* column with text that is no date, a pattern the regex engine rejects
RuleRaises(n) ==
    LET r == RunList[n]
        df == SeenDataset
    IN /\ ~ReadsAbsentColumn(n)
       /\ \/ r.kind = "column_types" /\ r.e.type_is_list
          \/ r.kind = "value_ranges" /\ ~r.e.is_mapping
          \/ /\ r.kind = "date_within_days"
             /\ \E i \in 1..Height(df) :
                   df.rows[i][r.e.column] # NULL /\ ~IsIsoDate(df.rows[i][r.e.column])
          \/ r.kind = "pattern_match" /\ ~RegexCompiles(r.e.pattern)

\* the report has an error CheckResult, with the exception text, for rule n
HasErrorResultFor(n) ==
    \E j \in 1..Len(report.out.checks) :
        /\ report.out.checks[j].rule = RuleId(RunList[n])
        /\ report.out.checks[j].status = "error"
        /\ report.out.checks[j].error # ""

\* every rule after rule n was gone through
LaterRulesEvaluated(n) ==
    \A m \in (n + 1)..Len(RunList) :
        \E j \in 1..Len(report.out.evaluated) : report.out.evaluated[j] = RuleId(RunList[m])

\* C7 (as claimed): if evaluating one rule raises an exception, the report
\* has a CheckResult with status error for that rule carrying the exception
\* text, every rule after it is still evaluated, and the run does not end as
\* a fatal report.
C7_RuleExceptionIsContained ==
    (RunDone /\ Loaded) =>
        \A n \in 1..Len(RunList) :
            RuleRaises(n) =>
                /\ ~report.out.fatal
                /\ HasErrorResultFor(n)
                /\ LaterRulesEvaluated(n)

\* C8: run_rules never lets an exception through to its caller, and when the
\* registry or the dataset cannot be loaded it returns a report with no
\* checks, schema_ok false, passed = 0, failed = 0, errors = 1, with no rule
\* evaluated.
C8_LoadFailureIsFatalReport ==
    RunDone =>
        /\ ~report.out.propagated
        /\ ~Loaded =>
              /\ report.out.checks = <<>>
              /\ report.out.schema_ok = FALSE
              /\ report.out.summary.passed = 0
              /\ report.out.summary.failed = 0
              /\ report.out.summary.errors = 1
              /\ report.out.evaluated = <<>>

\* C8 witness: a registry with rules and a dataset that could not be read
\* ended in the fatal report
C8_Witness ==
    /\ RunDone
    /\ report.out.fatal
    /\ runIn.registry.readable
    /\ ~runIn.dataset.readable
    /\ Len(RunList) > 1

\* the kinds of rule that look at one row at a time
RowLevelKinds ==
    { "value_ranges", "non_negative", "date_within_days", "cash_leq_gross",
      "enum_values", "pattern_match", "not_null" }

\* a row violates a rule, by what the rule demands of a row
Violates(r, row) ==
    CASE r.kind = "value_ranges" ->
            LET x == CastFloat64(row[r.e.col])
            IN ~x.null /\ ~(r.e.min <= x.n /\ x.n <= r.e.max)
      [] r.kind = "non_negative" ->
            LET x == CastFloat64(row[r.e.col]) IN ~x.null /\ ~(x.n >= 0)
      [] r.kind = "date_within_days" ->
            LET t == to_datetime(row[r.e.column])
            IN ~t.null /\ ~t.raises /\ Today - t.day > r.e.max_days
      [] r.kind = "cash_leq_gross" ->
            LET cash == CastFloat64(row[r.e.cash_column])
                gross == CastFloat64(row[r.e.gross_column])
            IN ~cash.null /\ ~gross.null /\ ~(cash.n <= gross.n)
      [] r.kind = "enum_values" ->
            /\ row[r.e.col] # NULL
            /\ ~\E a \in r.e.allowed :
                   IF r.e.case_sensitive THEN a = row[r.e.col]
                   ELSE Lower(a) = Lower(row[r.e.col])
      [] r.kind = "pattern_match" ->
            row[r.e.col] # NULL /\ ~FullMatch(r.e.pattern, row[r.e.col])
      [] r.kind = "not_null" -> row[r.e.col] = NULL
      [] OTHER -> FALSE

\* the rows of the dataset that violate rule n of the run
ViolatingRows(n) ==
    {i \in 1..Height(SeenDataset) : Violates(RunList[n], SeenDataset.rows[i])}

\* the failed CheckResults of row-level rules, as (check, rule) positions
FailedRowLevel ==
    {p \in (1..Len(report.out.checks)) \X (1..Len(RunList)) :
        /\ report.out.checks[p[1]].rule = RuleId(RunList[p[2]])
        /\ report.out.checks[p[1]].status = "fail"
        /\ RunList[p[2]].kind \in RowLevelKinds}

\* C9 (as claimed): for every row-level rule that fails, the failing-row
\* sample has at most max_failing_rows_per_rule entries (default 5) and the
\* reported count is the number of violating rows in the dataset.
C9_SampleCappedCountTotal ==
    (RunDone /\ Loaded) =>
        \A p \in FailedRowLevel :
            /\ Len(report.out.checks[p[1]].failing_rows) <= MaxFailingRows(runIn.registry)
            /\ report.out.checks[p[1]].count = Cardinality(ViolatingRows(p[2]))

\* C10 (as claimed): for every row-level rule that fails, each entry of the
\* failing-row sample is the field-to-value rendering of a dataset row that
\* violates the rule.
C10_SampleEntriesAreViolatingRows ==
    (RunDone /\ Loaded) =>
        \A p \in FailedRowLevel :
            \A k \in 1..Len(report.out.checks[p[1]].failing_rows) :
                \E i \in ViolatingRows(p[2]) :
                    report.out.checks[p[1]].failing_rows[k]
                        \in {SeenDataset.rows[i], runIn.dataset.rows[i]}

\* the file of the run is one detect_profile classifies as the standard
\* profile
StandardFile == detect_profile(runIn.dataset.columns) = "cms_csv"

\* the headers the registry requires of the standard profile, normalized
RequiredOfStandard ==
    {normalize_header(h) :
        h \in Range(ProfileConfig(runIn.registry, "cms_csv").required_headers)}

\* the columns of the dataset, normalized
NormalizedColumns == {normalize_header(c) : c \in Range(runIn.dataset.columns)}

\* the first CheckResult of a report that has checks
HeaderCheck == report.out.checks[1]

\* C11 (as claimed): for a file detect_profile classifies as the standard
\* profile, the required-headers check of the report passes exactly when
\* every header the registry requires of the standard profile is among the
\* normalized columns; otherwise it fails and names exactly the missing
\* headers.
C11_RequiredHeadersOfStandardFile ==
    (RunDone /\ Loaded /\ ~report.out.fatal /\ StandardFile) =>
        /\ HeaderCheck.status =
              IF RequiredOfStandard \subseteq NormalizedColumns THEN "pass" ELSE "fail"
        /\ HeaderCheck.missing = RequiredOfStandard \ NormalizedColumns

\* the report of the run with every rule section of the registry emptied
ReportWithoutRules ==
    run_rules([runIn.registry EXCEPT !.sections = NoRules],
              runIn.dataset, runIn.ctx, Today)

\* C12: in every non-fatal report schema_ok is true exactly when the
\* required-headers check has status pass, and it is the schema_ok of the
\* same run without any other rule: no other check's outcome changes it.
C12_SchemaOkIsHeaderStatus ==
    (RunDone /\ ~report.out.fatal) =>
        /\ report.out.schema_ok = (HeaderCheck.status = "pass")
        /\ report.out.schema_ok = ReportWithoutRules.schema_ok

\* C12 witness: a report with schema_ok true and a failed rule, from a run
\* whose required-headers check can fail on other datasets
C12_Witness ==
    /\ RunDone /\ ~report.out.fatal
    /\ report.out.schema_ok
    /\ HeaderCheck.status = "pass"
    /\ runIn.ctx.csv = "none"
    /\ \E j \in 2..Len(report.out.checks) : report.out.checks[j].status = "fail"

\* the CheckResults of the report with one status
WithStatus(status) ==
    {j \in 1..Len(report.out.checks) : report.out.checks[j].status = status}

\* the summary of the report counts its checks list
SummaryCountsChecks ==
    /\ report.out.summary.total_checks = Len(report.out.checks)
    /\ report.out.summary.total_checks =
          report.out.summary.passed + report.out.summary.failed
              + report.out.summary.errors
    /\ report.out.summary.passed = Cardinality(WithStatus("pass"))
    /\ report.out.summary.failed = Cardinality(WithStatus("fail"))
    /\ report.out.summary.errors = Cardinality(WithStatus("error"))

\* C13 (as claimed): in every report run_rules returns, total_checks is the
\* length of the checks list and is passed + failed + errors, each counter
\* being the number of CheckResults of the list with that status.
C13_SummaryCountsEveryReport == RunDone => SummaryCountsChecks

\* C13 (amended): in every report run_rules returns from its normal path,
\* total_checks is the length of the checks list and is passed + failed +
\* errors, each counter being the number of CheckResults of the list with
\* that status; the report of the except branch has an empty checks list,
\* total_checks = 0 and errors = 1.
C13_SummaryCountsNonFatalReport ==
    RunDone =>
        IF report.out.fatal
        THEN /\ report.out.checks = <<>>
             /\ report.out.summary.total_checks = 0
             /\ report.out.summary.errors = 1
        ELSE SummaryCountsChecks

\* C13 witness: a report whose checks list has a passed, a failed and an
\* error CheckResult
C13_Witness ==
    /\ RunDone /\ ~report.out.fatal
    /\ WithStatus("pass") # {}
    /\ WithStatus("fail") # {}
    /\ WithStatus("error") # {}

\* C14 (as claimed): two runs of run_rules on the same dataset, registry and
\* profile argument give reports that agree in every field (the timestamp
\* is not part of the report here): checks in the same order with the same
\* status, counts, details and failing-row samples.
C14_SecondRunSameReport ==
    (RunDone /\ rerun.fn = "run_rules") => rerun.out = report.out

\* C15 (as claimed): the row offset at which the dataset is loaded, the
\* index find_header_row gives at upload, equals the detected_header_row the
\* validation report states for the same file.
C15_LoadOffsetIsReportedHeaderRow ==
    (sniffOut.fn = "find_header_row" /\ sniffOut.max_scan = DefaultMaxLines) =>
        sniffOut.res.idx = detected_header_row(text)

\* the profiles the registry and the column mapping know by name
NamedProfiles == {"cms_csv", "simple_csv"}

\* what analyze_cms_csv may have found beside the Parquet file
CsvFindings == {"none", "tall", "wide"}

\* the report of the run had the CSV analysis found `csv`
ReportUnderCsv(csv) ==
    run_rules(runIn.registry, runIn.dataset, [runIn.ctx EXCEPT !.csv = csv], Today)

\* C16 (as claimed): the profile run_rules reports as detected_profile and
\* works with is cms_csv or simple_csv, and it is the same for the same
\* columns whatever layout was detected.
C16_ProfileIsNamedAndByHeaders ==
    (RunDone /\ Loaded /\ ~report.out.fatal) =>
        /\ report.out.detected_profile \in NamedProfiles
        /\ report.out.profile \in NamedProfiles
        /\ \A csv \in CsvFindings :
              ~ReportUnderCsv(csv).fatal =>
                  /\ ReportUnderCsv(csv).detected_profile = report.out.detected_profile
                  /\ ReportUnderCsv(csv).profile = report.out.profile

\* the candidate indices of the scan window at which each heuristic accepts
DomainCandidates ==
    {i \in ScanRange(LinesScanned, sniffOut.max_scan) : DomainPreambleAt(LinesScanned, i)}

GenericCandidates ==
    {i \in ScanRange(LinesScanned, sniffOut.max_scan) : GenericMetadataAt(LinesScanned, i)}

\* C17 (as claimed): the header row the preamble sniffer returns is i+2 for
\* the smallest candidate index i of the scan window at which the
\* domain-preamble heuristic or the generic-metadata heuristic accepts.
C17_SmallestAcceptingCandidate ==
    (PreambleSniffed /\ DomainCandidates \cup GenericCandidates # {}) =>
        /\ ~sniffOut.res.raised
        /\ sniffOut.res.idx = Smallest(DomainCandidates \cup GenericCandidates) + 2

\* C17 (amended): the preamble sniffer goes through the candidates twice,
\* in increasing order each time: the header row is i+2 for the smallest i
\* at which the domain-preamble heuristic accepts, and only when it accepts
\* at no candidate, i+2 for the smallest i at which the generic-metadata
\* heuristic accepts.
C17_DomainPassThenGenericPass ==
    (PreambleSniffed /\ DomainCandidates \cup GenericCandidates # {}) =>
        /\ ~sniffOut.res.raised
        /\ sniffOut.res.idx =
              (IF DomainCandidates # {} THEN Smallest(DomainCandidates)
               ELSE Smallest(GenericCandidates)) + 2

\* C17 witness: the generic-metadata heuristic accepts at an earlier
\* candidate than the domain-preamble heuristic, and the header row is the
\* one of the domain preamble
C17_Witness ==
    /\ PreambleSniffed
    /\ DomainCandidates # {} /\ GenericCandidates # {}
    /\ Smallest(GenericCandidates) < Smallest(DomainCandidates)
    /\ sniffOut.res.idx = Smallest(DomainCandidates) + 2

\* C18 (as claimed): for every input text the preamble sniffer returns a
\* (header row index, preamble, header cells) result and does not raise; a
\* line the csv reader rejects is passed over in the heuristic scans and in
\* the fallback scan alike.
C18_SnifferNeverRaises ==
    PreambleSniffed =>
        /\ ~sniffOut.res.raised
        /\ (NoCandidateAccepts /\ CellLines # {}) =>
              /\ sniffOut.res.idx \in CellLines
              /\ \A j \in CellLines : sniffOut.res.idx <= j

\* the positions in the rule list of the enabled cash<=gross rules whose
\* two columns the dataset has
CashRulesInForce ==
    {n \in 1..Len(RunList) :
        /\ RunList[n].kind = "cash_leq_gross"
        /\ RunList[n].e.enabled
        /\ HasColumn(SeenDataset, RunList[n].e.cash_column)
        /\ HasColumn(SeenDataset, RunList[n].e.gross_column)}

\* the CheckResults of the report for rule n of the run
ChecksOf(n) ==
    {j \in 1..Len(report.out.checks) : report.out.checks[j].rule = RuleId(RunList[n])}

\* the rows in which both values are numbers and cash is above gross
CashAboveGross(n) ==
    {i \in 1..Height(SeenDataset) :
        LET cash == SeenDataset.rows[i][RunList[n].e.cash_column]
            gross == SeenDataset.rows[i][RunList[n].e.gross_column]
        IN /\ ~CastFloat64(cash).null
           /\ ~CastFloat64(gross).null
           /\ CastFloat64(cash).n > CastFloat64(gross).n}

\* C19: when the cash<=gross rule is enabled and both columns exist, the
\* report has one CheckResult for it whose violation count is the number of
\* rows in which both values cast to a number and cash is strictly greater
\* than gross, and whose status is pass exactly when that number is 0.
C19_CashCountIsStrictlyGreaterRows ==
    (RunDone /\ Loaded /\ ~report.out.fatal) =>
        \A n \in CashRulesInForce :
            /\ Cardinality(ChecksOf(n)) = 1
            /\ \A j \in ChecksOf(n) :
                  /\ report.out.checks[j].count = Cardinality(CashAboveGross(n))
                  /\ report.out.checks[j].status =
                        IF CashAboveGross(n) = {} THEN "pass" ELSE "fail"

\* C19 witness: a dataset with a row where cash is above gross and a row
\* where the two are equal or do not both cast, reported with count 1
C19_Witness ==
    /\ RunDone /\ Loaded /\ ~report.out.fatal
    /\ \E n \in CashRulesInForce :
          /\ Height(SeenDataset) = 2
          /\ CashAboveGross(n) = {1}
          /\ \E j \in ChecksOf(n) :
                report.out.checks[j].status = "fail" /\ report.out.checks[j].count = 1

Mapped == profOut.fn = "map_to_internal"

\* the candidate lists of the call, by the profile given or detected
RulesOfCall == MappingRulesOf(profIn.a, profOut.profile)

\* the normalized spellings of the headers of the call
NormalizedInput == {normalize_header(profIn.a[i]) : i \in 1..Len(profIn.a)}

\* C20: map_to_internal maps each canonical field to an input header whose
\* normalized spelling is the earliest candidate of the field's list, in the
\* profile's order, that is among the normalized headers; a field with no
\* candidate present is absent from the mapping; no two fields map to the
\* same header.
C20_MappingIsEarliestPresentSynonym ==
    Mapped =>
        /\ DOMAIN profOut.mapping \subseteq
              {RulesOfCall[j].internal : j \in 1..Len(RulesOfCall)}
        /\ \A j \in 1..Len(RulesOfCall) :
              LET name == RulesOfCall[j].internal
                  candidates == RulesOfCall[j].candidates
              IN IF \A k \in 1..Len(candidates) : candidates[k] \notin NormalizedInput
                 THEN name \notin DOMAIN profOut.mapping
                 ELSE /\ name \in DOMAIN profOut.mapping
                      /\ profOut.mapping[name] \in Range(profIn.a)
                      /\ \E k \in 1..Len(candidates) :
                            /\ normalize_header(profOut.mapping[name]) = candidates[k]
                            /\ \A k2 \in 1..(k - 1) : candidates[k2] \notin NormalizedInput
        /\ \A f, g \in DOMAIN profOut.mapping :
              f # g => profOut.mapping[f] # profOut.mapping[g]

\* C20 witness: headers with two synonyms of code among them, mapped under
\* the cms_csv order, with another field mapped and a field absent
C20_Witness ==
    /\ Mapped
    /\ profOut.profile = "cms_csv"
    /\ S_code \in Range(profIn.a)
    /\ S_code \in DOMAIN profOut.mapping
    /\ normalize_header(profOut.mapping[S_code]) = S_billing_code
    /\ S_gross_price \in DOMAIN profOut.mapping
    /\ S_date \notin DOMAIN profOut.mapping

\* the headers, as classified, that belong to the tall vocabulary
TallVocabularyHeaders ==
    {i \in 1..Len(hdrInput.hdrs) : Lower(Strip(hdrInput.hdrs[i])) \in base_tall}

\* C21 (as claimed): when no header is a pipe-joined payer/plan column and a
\* header belongs to the tall vocabulary, either classifier returns Tall,
\* whatever the number of columns.
C21_TallVocabularyIsTall ==
    (layoutOut # NoOut /\ PipeTokenHeaders = {} /\ TallVocabularyHeaders # {}) =>
        layoutOut.layout \in {"csv_tall", "tall"}

\* a preamble sniffer has accepted a label/value pair: it did not fall back
PairAccepted == PreambleSniffed /\ ~NoCandidateAccepts /\ ~sniffOut.res.raised

\* the label row and the value row of the accepted pair, as the sniffer
\* compares and stores them
LabelCells == CellsLower(LinesScanned[sniffOut.res.idx - 1])
ValueCells == CellsStrip(LinesScanned[sniffOut.res.idx])

\* the positions of the label row that hold the label k
Occurrences(k) == {n \in 1..Len(LabelCells) : LabelCells[n] = k}


\* C22 (as claimed): when a pair is accepted the preamble maps each
\* lower-cased, trimmed label cell to the trimmed, case-preserved value cell
\* at the position of the label's last occurrence.
C22_EachLabelToLastValue ==
    PairAccepted =>
        \A n \in 1..Len(LabelCells) :
            /\ LabelCells[n] \in DOMAIN sniffOut.res.preamble
            /\ sniffOut.res.preamble[LabelCells[n]] =
                  ValueCells[Largest(Occurrences(LabelCells[n]))]

\* the positions at which both the label and the value are non-empty
StoredPositions ==
    {n \in 1..Len(LabelCells) : LabelCells[n] # <<>> /\ ValueCells[n] # <<>>}

\* C22 (amended): when a pair is accepted the keys of the preamble are the
\* non-empty lower-cased, trimmed label cells that have a non-empty trimmed
\* value cell at the same position, and each key maps to the case-preserved
\* trimmed value at the last such position of the label.
C22_NonEmptyPairsLastWins ==
    PairAccepted =>
        /\ DOMAIN sniffOut.res.preamble = {LabelCells[n] : n \in StoredPositions}
        /\ \A k \in DOMAIN sniffOut.res.preamble :
              sniffOut.res.preamble[k] =
                  ValueCells[Largest(Occurrences(k) \cap StoredPositions)]

\* C22 witness: a label that occurs twice with two non-empty values was
\* stored with the second, trimmed and in its original case
C22_Witness ==
    /\ PairAccepted
    /\ LinesScanned[sniffOut.res.idx - 1] = RowTwiceLabel
    /\ LinesScanned[sniffOut.res.idx] = RowValues
    /\ DOMAIN sniffOut.res.preamble = {Lower(C_Hospital_Name)}
    /\ sniffOut.res.preamble[Lower(C_Hospital_Name)] = <<"A","c","m","e">>

\* the 0-based indices of the lines, among the first 50, that parse to a row
\* with at least 3 cells of the key-header vocabulary
KeyHeaderLines ==
    {idx \in 0..(Min(DefaultMaxLines, Len(text)) - 1) :
        /\ ~text[idx + 1].bad
        /\ Cardinality({c \in 1..Len(text[idx + 1].cells) :
                           Lower(Strip(text[idx + 1].cells[c])) \in CMS_KEY_HEADERS}) >= 3}

\* C23 (as claimed): extract_header(path, find_header_row(prefix)) returns
\* the lower-cased, trimmed cells of the first of the first 50 lines that has
\* at least 3 key-header cells, whatever the lines before it hold; when there
\* is no such line find_header_row returns 0.
C23_ExtractedHeaderIsFirstKeyRow ==
    sniffOut.fn = "extract_header" =>
        IF KeyHeaderLines = {}
        THEN sniffOut.res.idx = 0
        ELSE /\ ~sniffOut.res.raised
             /\ sniffOut.res.idx = Smallest(KeyHeaderLines)
             /\ sniffOut.res.headers =
                   CellsLower(text[Smallest(KeyHeaderLines) + 1])

(***************************************************************************)
(* Properties of the runs of the service                                   *)
(***************************************************************************)
\* the summary a validation of a file contributes: that of its report, one
\* error when it raised, nothing when there is no file or it was skipped
ReportedSummary(f) ==
    CASE f.how = "returns" -> f.summary
      [] f.how = "raises" -> SummaryOf(0, 0, 0, 1)
      [] OTHER -> ZeroSummary

\* the field-wise sum of the CSV and the JSON summary of a run
SumOfSummaries(r) ==
    LET c == ReportedSummary(uploaded[r].parquet)
        j == ReportedSummary(uploaded[r].json)
    IN SummaryOf(c.total_checks + j.total_checks, c.passed + j.passed,
                 c.failed + j.failed, c.errors + j.errors)

StatusBySummary(r) ==
    IF SumOfSummaries(r).failed = 0 /\ SumOfSummaries(r).errors = 0
    THEN "validated" ELSE "failed"

\* the path and the content of the evidence of a run
EvidenceFileOf(r) == <<"evidence", r>>
EvidenceOf(r) == [run_id |-> r, combined_summary |-> SumOfSummaries(r)]

HasEvidence(r) == EvidenceFileOf(r) \in DOMAIN evidence

\* the run has had one validation, a job or a synchronous one, which has
\* ended, and no other request
OnlyJob(r) ==
    /\ pc[r].job \in {"returned", "raised"}
    /\ pc[r].sync = "idle" /\ pc[r].publish = "idle"

OnlySync(r) ==
    /\ pc[r].sync = "done"
    /\ pc[r].job = "idle" /\ pc[r].publish = "idle"

\* C24: whatever the requests of the other run do in between, the evidence
\* stored for a run is that of its own files and is written by its own
\* validation only, and after its one validation the run has the status and
\* the evidence that validation gives by itself: by the run's own summary
\* when it completes, FAILED when the job raises, unchanged when the
\* synchronous validation finds no file.
C24_RunsDoNotInterfere ==
    \A r \in RunIds :
        /\ DOMAIN evidence \subseteq {EvidenceFileOf(q) : q \in RunIds}
        /\ HasEvidence(r) =>
              /\ evidence[EvidenceFileOf(r)] = EvidenceOf(r)
              /\ pc[r].job = "returned" \/ pc[r].sync = "done"
        /\ OnlyJob(r) =>
              IF pc[r].job = "returned"
              THEN runs[r].status = StatusBySummary(r) /\ HasEvidence(r)
              ELSE runs[r].status = "failed" /\ ~HasEvidence(r)
        /\ OnlySync(r) =>
              IF NoFilesFound(uploaded[r])
              THEN runs[r].status = "uploaded" /\ ~HasEvidence(r)
              ELSE runs[r].status = StatusBySummary(r)

\* C24 witness: both runs have had their validation, one as a job and one
\* synchronously, with different outcomes and each with its own evidence
C24_Witness ==
    /\ OnlyJob("r1") /\ pc["r1"].job = "returned"
    /\ OnlySync("r2")
    /\ runs["r1"].status = "validated"
    /\ runs["r2"].status = "failed"
    /\ HasEvidence("r1") /\ HasEvidence("r2")
    /\ evidence[EvidenceFileOf("r1")] # evidence[EvidenceFileOf("r2")]

\* a validation writes the run's final status in this step
WritesFinalStatus(r) ==
    \/ pc[r].job = "running" /\ pc'[r].job = "committed"
    \/ pc[r].sync = "idle" /\ pc'[r].sync = "committed"

\* C25: the status a validation sets, as a job or synchronously, is
\* VALIDATED exactly when the field-wise sum of the CSV and the JSON summary
\* has failed = 0 and errors = 0, and FAILED otherwise.
C25_FinalStatusBySummary ==
    [][\A r \in RunIds : WritesFinalStatus(r) => runs'[r].status = StatusBySummary(r)]_vars

\* C25 witness: a job has returned for a run whose summary has no failed
\* check and one error, and the run is FAILED
C25_Witness ==
    /\ pc["r1"].job = "returned"
    /\ pc["r1"].sync = "idle" /\ pc["r1"].publish = "idle"
    /\ SumOfSummaries("r1").failed = 0
    /\ SumOfSummaries("r1").errors = 1
    /\ runs["r1"].status = "failed"

\* C26 (as claimed): a run becomes PUBLISHED only from VALIDATED.
C26_PublishedOnlyFromValidated ==
    [][\A r \in RunIds :
          (runs'[r].status = "published" /\ runs[r].status # "published") =>
              runs[r].status = "validated"]_vars

\* C27 (as claimed): once a run is PUBLISHED its status never changes again.
C27_PublishedIsFinal ==
    [][\A r \in RunIds :
          runs[r].status = "published" => runs'[r].status = "published"]_vars

JobEnded(r) == pc[r].job \in {"returned", "raised"}

\* the run was not left in RUNNING: it is VALIDATED or FAILED, or PUBLISHED
\* by a publish request served in between
LeftValidatedOrFailed(r) ==
    \/ runs[r].status \in {"validated", "failed"}
    \/ runs[r].status = "published" /\ pc[r].publish = "done"

CsvValidated == result # NoOut /\ result.res.how = "returns"

HasErrorFinding ==
    \E i \in 1..Len(result.res.findings) : result.res.findings[i].severity = "error"

\* C29 (as claimed): validate_csv returns ok = false exactly when its
\* findings hold at least one finding of severity error; warnings and info
\* findings never change ok.
C29_OkFalseIffErrorFinding ==
    CsvValidated => (~result.res.ok <=> HasErrorFinding)

(***************************************************************************)
(* Properties of the renaming of mapped columns                            *)
(***************************************************************************)
\* run_rules has run on a readable registry and dataset with the profile
\* cms_csv and a mapping, so that the columns are renamed
ColumnsRenamed ==
    /\ report # NoOut
    /\ runIn.registry.readable /\ runIn.dataset.readable
    /\ ProfileOf(runIn.dataset, runIn.ctx) = "cms_csv"
    /\ DOMAIN map_to_internal(runIn.dataset.columns, "cms_csv") # {}

\* the names df.rename(rename_dict) gives the columns, in column order
NamesAfterRename ==
    [i \in 1..Len(runIn.dataset.columns) |->
        Renamed(map_to_internal(runIn.dataset.columns, "cms_csv"), runIn.dataset.columns[i])]

\* C30 (as claimed): when run_rules renames the mapped columns to their
\* canonical names, the column names stay pairwise distinct, and the report
\* is not the fatal report of a failed rename: the rules are evaluated.
C30_RenameKeepsNamesDistinct ==
    ColumnsRenamed =>
        /\ \A i, j \in 1..Len(NamesAfterRename) :
              i # j => NamesAfterRename[i] # NamesAfterRename[j]
        /\ ~report.out.fatal
        /\ Len(report.out.evaluated) = 1 + Len(RuleList(runIn.registry))

====
